---- MODULE Spec2Model ----
(***************************************************************************)
(* Model of the sensitive-value enrichment saga and of the API client of   *)
(* src/spacemk/exporters/terraform.py (class TerraformExporter).           *)
(*                                                                         *)
(* Spec     : one call of _enrich_workspace_variable_data (fn = "ws") or   *)
(*            of _enrich_variable_set_data (fn = "vs"), one action per     *)
(*            remote / container call, each of which may raise.            *)
(* SpecApi  : one call of _extract_data_from_api against a paginated       *)
(*            server, one action per _call_api round trip.                 *)
(***************************************************************************)
EXTENDS Integers, Sequences, FiniteSets, TLC

\* ------------------------------------------------------------------------
\* Bounds
\* ------------------------------------------------------------------------

\* How many calls may raise during one run of an enrichment function.
MaxFailures == 2

\* How many times a plan may be polled with a non-terminal status.
MaxPlanPolls == 1

\* ------------------------------------------------------------------------
\* Program constants
\* ------------------------------------------------------------------------

max_attempts == 10

\* ------------------------------------------------------------------------
\* The extracted data the enrichment works on
\* ------------------------------------------------------------------------

\* data.organizations, in list order
OrgIds == <<"o1", "o2">>

\* data.workspaces, in list order, and relationships.organization.data.id
WorkspaceIds == <<"w1", "w2", "w3">>

WsOrg == [w1 |-> "o1", w2 |-> "o1", w3 |-> "o2"]

\* data.workspace_variables, in list order, relationships.workspace.data.id
\* and attributes.key (a key is a sequence of characters)
VarIds == <<"v1", "v2", "v3", "v4">>

VarWs == [v1 |-> "w1", v2 |-> "w2", v3 |-> "w3", v4 |-> "w1"]

VarKey == [v1 |-> <<"A">>, v2 |-> <<"A", "B">>, v3 |-> <<"A">>, v4 |-> <<"B">>]

\* data.variable_sets, in list order, relationships.organization.data.id
VarSetIds == <<"s1", "s2", "s3">>

VarSetOrg == [s1 |-> "o1", s2 |-> "o1", s3 |-> "o2"]

\* data.variable_set_variables, relationships.varset.data.id, attributes.key
VsVarIds == <<"x1", "x2", "x3">>

VsVarSet == [x1 |-> "s1", x2 |-> "s2", x3 |-> "s3"]

VsVarKey == [x1 |-> <<"A">>, x2 |-> <<"A", "B">>, x3 |-> <<"A">>]

\* attributes.sensitive of the variable set variables
VsVarSensitive == [x1 |-> TRUE, x2 |-> FALSE, x3 |-> TRUE]

Range(s) == {s[i] : i \in DOMAIN s}

Orgs == Range(OrgIds)

Workspaces == Range(WorkspaceIds)

Vars == Range(VarIds)

VarSets == Range(VarSetIds)

VsVars == Range(VsVarIds)

\* attributes.value of a variable that the API did not disclose
NoValue == <<"?">>

\* ------------------------------------------------------------------------
\* Remote state
\* ------------------------------------------------------------------------

\* The id the server gives the "SMK" agent pool of an organization.
PoolId == [o1 |-> "pool_o1", o2 |-> "pool_o2"]

\* The id the server gives the disposable "SMK" workspace of an organization.
SmkWorkspaceId == [o1 |-> "smk_o1", o2 |-> "smk_o2"]

\* execution-mode, setting-overwrites and agent-pool relationship of the
\* workspaces before the enrichment starts
OriginalSettings ==
    [w1 |-> [mode |-> "remote", overwrites |-> FALSE, pool |-> "none"],
     w2 |-> [mode |-> "agent",  overwrites |-> TRUE,  pool |-> "pool_own"],
     w3 |-> [mode |-> "local",  overwrites |-> TRUE,  pool |-> "none"]]

\* global / priority flags and workspace / project attachments of the
\* variable sets before the enrichment starts
OriginalAttachment ==
    [s1 |-> [global |-> TRUE,  priority |-> FALSE, workspaces |-> {},     projects |-> {}],
     s2 |-> [global |-> FALSE, priority |-> FALSE, workspaces |-> {"w2"}, projects |-> {}],
     s3 |-> [global |-> FALSE, priority |-> TRUE,  workspaces |-> {},     projects |-> {"prj"}]]

NoBackup == [mode |-> "none", overwrites |-> FALSE, pool |-> "none"]

NoVsBackup == [global |-> FALSE, priority |-> FALSE, workspaces |-> {"none"}, projects |-> {"none"}]

\* ------------------------------------------------------------------------
\* Exceptions
\* ------------------------------------------------------------------------

NoExc == [type |-> "none", at |-> "none"]

Exc(type, step) == [type |-> type, at |-> step]

\* ------------------------------------------------------------------------
\* Plan logs: a log is a sequence of lines, a line a sequence of characters
\* ------------------------------------------------------------------------

Logs ==
    { << <<"A", "=", "x">>, <<"C", "=", "z">> >>,
      << <<"A", "B", "=", "y">>, <<"B", "=", "=">> >> }

\* which variables have attributes.sensitive other than False
SensitiveChoices ==
    { {}, {"v1"}, {"v3"}, {"v1", "v2"}, {"v1", "v2", "v3"}, {"v1", "v2", "v3", "v4"} }

\* which workspaces have a current configuration version
ConfigChoices ==
    { Range(WorkspaceIds) \ skipped : skipped \in {{}, {"w1"}, {"w2"}, {"w3"}} }

VARIABLES
    \* inputs of the run
    fn, docker_available, podman_available, confirm, sensitive, hasConfig,
    \* control
    pc, exc, outcome,
    \* locals of the enrichment functions
    orgQueue, organization_id, wsQueue, vsQueue,
    agent_pool_id, agent_container, current_workspace_id,
    workspace_data_backup, restored_agent,
    new_workspace, variable_set_relationship_backup, var_set_reset, var_set_id,
    \* locals of _start_agent_container and _get_plan
    attempts, found, planPolls, plan_response, plan_data,
    \* the data being enriched
    value, vsValue,
    \* remote state
    wsRemote, vsRemote, pools, containers, smkWorkspaces,
    \* history
    nfail, failedSteps, tryExc, backupTaken, repointed, restoreIssued,
    restoreApplied, mutatingCalls, poolsCreated, containersStarted, cleanupRan,
    orgsDone,
    \* _extract_data_from_api
    apiPc, responses, method, path, properties, include_pattern, url, raw_data,
    apiResult, apiError,
    \* _map_data
    mapPc, src_data, config, map_data, is_gitlab, is_ado, mapError, expand_input,
    \* _extract_workspaces_data
    wsxPc, ws_config, ws_api, ws_filter, ws_data, ws_index, wsxError,
    \* update_spacelift_config
    prepPc, latest_tag_data, config_file, repo_files, writable, changes_made,
    \* import_state_files_to_spacelift
    impPc, stack_space, space_ids, remaining, live_contexts, contextsCreated,
    tasksTriggered, impError

inputVars == <<fn, docker_available, podman_available, confirm, sensitive, hasConfig>>

ctlVars == <<pc, exc, outcome>>

loopVars == <<orgQueue, organization_id, wsQueue, vsQueue>>

wsLocals == <<current_workspace_id, workspace_data_backup, restored_agent>>

vsLocals == <<new_workspace, variable_set_relationship_backup, var_set_reset, var_set_id>>

agentLocals == <<agent_pool_id, agent_container>>

pollVars == <<attempts, found, planPolls, plan_response, plan_data>>

dataVars == <<value, vsValue>>

remoteVars == <<wsRemote, vsRemote, pools, containers, smkWorkspaces>>

faultVars == <<nfail, failedSteps>>

restoreHist == <<backupTaken, repointed, restoreIssued, restoreApplied>>

resourceHist == <<poolsCreated, containersStarted>>

histVars == <<faultVars, tryExc, restoreHist, mutatingCalls, resourceHist,
              cleanupRan, orgsDone>>

apiVars == <<apiPc, responses, method, path, properties, include_pattern, url,
             raw_data, apiResult, apiError>>

sagaVars == <<inputVars, ctlVars, loopVars, wsLocals, vsLocals, agentLocals,
              pollVars, dataVars, remoteVars, histVars>>

mapVars == <<mapPc, src_data, config, map_data, is_gitlab, is_ado, mapError,
             expand_input>>

\* _extract_workspaces_data
wsxVars == <<wsxPc, ws_config, ws_api, ws_filter, ws_data, ws_index, wsxError>>

\* update_spacelift_config
prepVars == <<prepPc, latest_tag_data, config_file, repo_files, writable, changes_made>>

\* import_state_files_to_spacelift
impVars == <<impPc, stack_space, space_ids, remaining, live_contexts, contextsCreated,
             tasksTriggered, impError>>

auxVars == <<wsxVars, prepVars, impVars>>

vars == <<sagaVars, apiVars, mapVars, auxVars>>

\* ------------------------------------------------------------------------
\* Pure helpers
\* ------------------------------------------------------------------------

RECURSIVE Dedup(_)
\* The keys of a dict in insertion order: first occurrences, in order.
Dedup(s) ==
    IF s = << >> THEN << >>
    ELSE LET r == Dedup(SubSeq(s, 1, Len(s) - 1))
             x == s[Len(s)]
         IN IF x \in Range(r) THEN r ELSE Append(r, x)

\* line.startswith(prefix)
StartsWith(line, prefix) ==
    /\ Len(line) >= Len(prefix)
    /\ SubSeq(line, 1, Len(prefix)) = prefix

\* line.removeprefix(prefix), for a line that starts with prefix
RemovePrefix(line, prefix) == SubSeq(line, Len(prefix) + 1, Len(line))

RECURSIVE ScanVars(_, _, _, _)
\* The inner loop of the log scan: every variable of varSeq whose
\* "<key>=" prefixes the line gets the remainder of the line.
ScanVars(val, line, varSeq, keyOf) ==
    IF varSeq = << >> THEN val
    ELSE LET v == Head(varSeq)
             prefix == Append(keyOf[v], "=")
             val1 == IF StartsWith(line, prefix)
                     THEN [val EXCEPT ![v] = RemovePrefix(line, prefix)]
                     ELSE val
         IN ScanVars(val1, line, Tail(varSeq), keyOf)

RECURSIVE ScanLog(_, _, _, _)
\* The outer loop of the log scan: for line in logs_data.split("\n")
ScanLog(val, lines, varSeq, keyOf) ==
    IF lines = << >> THEN val
    ELSE ScanLog(ScanVars(val, Head(lines), varSeq, keyOf), Tail(lines), varSeq, keyOf)

\* The variables that are grouped: all but those with sensitive = False
SensitiveVars(sens) == SelectSeq(VarIds, LAMBDA v : sens[v])

\* organizations.keys(): the organizations owning a grouped variable
Organizations(sens) ==
    LET sv == SensitiveVars(sens)
    IN Dedup([i \in DOMAIN sv |-> WsOrg[VarWs[sv[i]]]])

\* organizations[o].keys(): the workspaces of o owning a grouped variable
WorkspacesOf(o, sens) ==
    LET sv == SelectSeq(SensitiveVars(sens), LAMBDA v : WsOrg[VarWs[v]] = o)
    IN Dedup([i \in DOMAIN sv |-> VarWs[sv[i]]])

\* organizations[o][w].items(): the grouped variables of workspace w
WorkspaceVariables(w, sens) ==
    SelectSeq(SensitiveVars(sens), LAMBDA v : VarWs[v] = w)

\* variable_sets_in_organization
VariableSetsOf(o) == SelectSeq(VarSetIds, LAMBDA s : VarSetOrg[s] = o)

\* the variable set variables whose varset is s
VariableSetVariables(s) == SelectSeq(VsVarIds, LAMBDA x : VsVarSet[x] = s)

\* the runtime guard dropped
RuntimeAvailableUnchecked(docker, podman) == TRUE

\* not docker and not podman -> skip
RuntimeAvailable(docker, podman) == docker \/ podman

\* The attributes of the PATCH that repoints a workspace at the agent pool
RepointRequest(pool) == [mode |-> "agent", overwrites |-> TRUE, pool |-> pool]

\* the restore sends the attributes only: the agent-pool relationship stays
RestoreRequestAttributesOnly(backup) ==
    [mode |-> backup.mode, overwrites |-> backup.overwrites, pool |-> agent_pool_id]

\* The attributes and relationship _restore_workspace_exec_mode sends
RestoreRequest(backup) ==
    [mode |-> backup.mode, overwrites |-> backup.overwrites, pool |-> backup.pool]

\* The PATCH that attaches a variable set to the disposable workspace only
AttachRequest(ws) ==
    [global |-> FALSE, priority |-> TRUE, workspaces |-> {ws}, projects |-> {}]

\* The PATCH reset_variable_set_relationships sends
ResetRequest(backup) ==
    [global |-> backup.global, priority |-> backup.priority,
     workspaces |-> backup.workspaces, projects |-> backup.projects]

\* the flag is not cleared when the workspace is repointed
FlagAfterRepointStale == TRUE

\* restored_agent after a successful repoint PATCH
FlagAfterRepoint == FALSE

\* the flag is not set again when the workspace is restored
FlagAfterRestoreStale == FALSE

\* restored_agent after a successful restore in the loop body
FlagAfterRestore == TRUE

\* where an exception raised inside the try block continues
FinallyPc == IF fn = "ws" THEN "fin_restore" ELSE "fin_delete_ws"

PlanStatuses == {"pending", "errored", "finished", "canceled", "unreachable"}

EmptyPlan == [status |-> "none", log_read_url |-> FALSE]

\* the item _get_plan reads from GET /plans/{id}
PlanResponse(status, hasLog) == [status |-> status, log_read_url |-> hasLog]

\* a canceled or unreachable plan is returned like a finished one
PlanResultKeepsIgnoredPlan(status, hasLog) == PlanResponse(status, hasLog)

\* what _get_plan returns for a polled plan with a terminal status
PlanResult(status, hasLog) ==
    IF status \in {"errored", "finished"}
    THEN [status |-> status, log_read_url |-> hasLog]
    ELSE EmptyPlan

\* ------------------------------------------------------------------------
\* Initial states
\* ------------------------------------------------------------------------

\* no _extract_data_from_api call is being modelled
ApiIdle ==
    /\ apiPc = "idle"
    /\ responses = << >>
    /\ method = "GET"
    /\ path = "none"
    /\ properties = [given |-> FALSE, paths |-> << >>]
    /\ include_pattern = [given |-> FALSE, prefix |-> << >>]
    /\ url = <<"none", 0>>
    /\ raw_data = << >>
    /\ apiResult = << >>
    /\ apiError = "none"

\* no _map_data call is being modelled
MapIdle ==
    /\ mapPc = "idle"
    /\ src_data = << >>
    /\ config = << >>
    /\ map_data = << >>
    /\ is_gitlab = FALSE
    /\ is_ado = FALSE
    /\ mapError = "none"
    /\ expand_input = << >>

\* no _extract_workspaces_data call is being modelled
WsxIdle ==
    /\ wsxPc = "idle"
    /\ ws_config = << >>
    /\ ws_api = << >>
    /\ ws_filter = << >>
    /\ ws_data = << >>
    /\ ws_index = 0
    /\ wsxError = "none"

\* no update_spacelift_config call is being modelled
PrepIdle ==
    /\ prepPc = "idle"
    /\ latest_tag_data = << >>
    /\ config_file = << >>
    /\ repo_files = {}
    /\ writable = TRUE
    /\ changes_made = FALSE

\* no import_state_files_to_spacelift command is being modelled
ImpIdle ==
    /\ impPc = "idle"
    /\ stack_space = << >>
    /\ space_ids = {}
    /\ remaining = {}
    /\ live_contexts = {}
    /\ contextsCreated = {}
    /\ tasksTriggered = 0
    /\ impError = "none"

\* the locals, remote state and history at the start of an enrichment call
SagaStart ==
    /\ exc = NoExc
    /\ outcome = "running"
    /\ orgQueue = << >>
    /\ organization_id = "none"
    /\ wsQueue = << >>
    /\ vsQueue = << >>
    /\ agent_pool_id = "none"
    /\ agent_container = "none"
    /\ current_workspace_id = "none"
    /\ workspace_data_backup = NoBackup
    /\ restored_agent = TRUE
    /\ new_workspace = "none"
    /\ variable_set_relationship_backup = NoVsBackup
    /\ var_set_reset = TRUE
    /\ var_set_id = "none"
    /\ attempts = 0
    /\ found = FALSE
    /\ planPolls = 0
    /\ plan_response = EmptyPlan
    /\ plan_data = EmptyPlan
    /\ value = [v \in Vars |-> NoValue]
    /\ vsValue = [x \in VsVars |-> NoValue]
    /\ wsRemote = OriginalSettings
    /\ vsRemote = OriginalAttachment
    /\ pools = {}
    /\ containers = [o \in Orgs |-> "none"]
    /\ smkWorkspaces = {}
    /\ nfail = 0
    /\ failedSteps = {}
    /\ tryExc = NoExc
    /\ backupTaken = [w \in Workspaces |-> NoBackup]
    /\ repointed = {}
    /\ restoreIssued = [w \in Workspaces |-> 0]
    /\ restoreApplied = [w \in Workspaces |-> 0]
    /\ mutatingCalls = {}
    /\ poolsCreated = {}
    /\ containersStarted = {}
    /\ cleanupRan = {}
    /\ orgsDone = {}

Init ==
    /\ fn \in {"ws", "vs"}
    \* `not docker and not podman` asks for podman only when docker is missing;
    \* confirm is the answer the operator gives if asked
    /\ docker_available \in BOOLEAN
    /\ podman_available \in IF docker_available THEN {FALSE} ELSE BOOLEAN
    /\ confirm \in BOOLEAN
    /\ IF fn = "ws"
       THEN /\ \E c \in SensitiveChoices : sensitive = [v \in Vars |-> v \in c]
            /\ \E c \in ConfigChoices : hasConfig = [w \in Workspaces |-> w \in c]
       ELSE /\ sensitive = [v \in Vars |-> FALSE]
            /\ hasConfig = [w \in Workspaces |-> TRUE]
    /\ pc = IF fn = "ws" THEN "ws_guard" ELSE "vs_guard"
    /\ SagaStart
    /\ ApiIdle
    /\ MapIdle
    /\ WsxIdle
    /\ PrepIdle
    /\ ImpIdle

\* ------------------------------------------------------------------------
\* Raising
\* ------------------------------------------------------------------------

\* one more call raises
Inject(step) ==
    /\ nfail < MaxFailures
    /\ nfail' = nfail + 1
    /\ failedSteps' = failedSteps \cup {step}

Issued(step, mutating) ==
    mutatingCalls' = IF mutating THEN mutatingCalls \cup {step} ELSE mutatingCalls

\* a call inside the try block raises: control goes to the finally block
TryFailCore(step, types, mutating) ==
    /\ Inject(step)
    /\ \E t \in types : exc' = Exc(t, step) /\ tryExc' = Exc(t, step)
    /\ pc' = FinallyPc
    /\ Issued(step, mutating)
    /\ UNCHANGED <<outcome, loopVars, wsLocals, vsLocals, agentLocals, pollVars,
                   dataVars, remoteVars, resourceHist, cleanupRan, orgsDone>>

TryFail(step, types, mutating) ==
    /\ TryFailCore(step, types, mutating)
    /\ UNCHANGED restoreHist

\* a call inside the finally block raises: the rest of the block is skipped
\* and the new exception replaces the one that was propagating
FinFailCore(step, mutating) ==
    /\ Inject(step)
    /\ exc' = Exc("RuntimeError", step)
    /\ pc' = "fin_exit"
    /\ Issued(step, mutating)
    /\ cleanupRan' = cleanupRan \cup {step}
    /\ UNCHANGED <<outcome, tryExc, loopVars, wsLocals, vsLocals, agentLocals,
                   pollVars, dataVars, remoteVars, resourceHist, orgsDone>>

FinFail(step, mutating) ==
    /\ FinFailCore(step, mutating)
    /\ UNCHANGED restoreHist

\* return data
Return ==
    /\ pc' = "done"
    /\ outcome' = "returned"
    /\ UNCHANGED exc

\* ------------------------------------------------------------------------
\* The ephemeral agent: _create_agent_pool, _start_agent_container,
\* _stop_agent_container, _delete_agent_pool
\* ------------------------------------------------------------------------

\* agent_pool_id = self._create_agent_pool(organization_id)
CreateAgentPool ==
    /\ pc = "create_pool"
    /\ \/ /\ agent_pool_id' = PoolId[organization_id]
          /\ pools' = pools \cup {PoolId[organization_id]}
          /\ poolsCreated' = poolsCreated \cup {PoolId[organization_id]}
          /\ Issued("create_pool", TRUE)
          /\ pc' = "create_token"
          /\ UNCHANGED <<exc, outcome, loopVars, wsLocals, vsLocals, agent_container,
                         pollVars, dataVars, wsRemote, vsRemote, containers,
                         smkWorkspaces, faultVars, tryExc, restoreHist,
                         containersStarted, cleanupRan, orgsDone>>
       \/ TryFail("create_pool", {"RuntimeError"}, TRUE)
    /\ UNCHANGED <<inputVars, apiVars, mapVars, auxVars>>

\* token = self._create_agent_token(agent_pool_id)
CreateAgentToken ==
    /\ pc = "create_token"
    /\ \/ /\ Issued("create_token", TRUE)
          /\ pc' = "docker_run"
          /\ UNCHANGED <<exc, outcome, loopVars, wsLocals, vsLocals, agentLocals,
                         pollVars, dataVars, remoteVars, faultVars, tryExc,
                         restoreHist, resourceHist, cleanupRan, orgsDone>>
       \/ TryFail("create_token", {"RuntimeError"}, TRUE)
    /\ UNCHANGED <<inputVars, apiVars, mapVars, auxVars>>

\* container = docker.run(detach=True, name=container_name, remove=True, ...)
DockerRun ==
    /\ pc = "docker_run"
    /\ \/ /\ containers' = [containers EXCEPT ![organization_id] = "starting"]
          /\ containersStarted' = containersStarted \cup {organization_id}
          /\ attempts' = 0
          /\ found' = FALSE
          /\ pc' = "poll"
          /\ UNCHANGED <<exc, outcome, loopVars, wsLocals, vsLocals, agentLocals,
                         planPolls, plan_response, plan_data, dataVars, wsRemote, vsRemote, pools,
                         smkWorkspaces, faultVars, tryExc, restoreHist,
                         mutatingCalls, poolsCreated, cleanupRan, orgsDone>>
       \/ TryFail("docker_run", {"DockerException"}, FALSE)
    /\ UNCHANGED <<inputVars, apiVars, mapVars, auxVars>>

\* whether one pass over docker.ps() sees the named container running
SeenRunning(state) == state = "running"

\* the check made after attempts += 1
AttemptsExhausted(n) == n > max_attempts

\* one iteration of the loop `while not found` of _start_agent_container
PollAgent ==
    /\ pc = "poll"
    /\ ~found
    /\ \/ LET seen == SeenRunning(containers[organization_id])
              n == attempts + 1
          IN /\ IF AttemptsExhausted(n)
                THEN /\ exc' = Exc("AgentStartError", "poll")
                     /\ tryExc' = Exc("AgentStartError", "poll")
                     /\ pc' = FinallyPc
                     /\ found' = seen
                     /\ attempts' = n
                     /\ UNCHANGED agent_container
                ELSE IF seen
                THEN \* return container: the locals of the call are gone
                     /\ agent_container' = organization_id
                     /\ pc' = IF fn = "ws" THEN "ws_loop" ELSE "vs_create_ws"
                     /\ found' = FALSE
                     /\ attempts' = 0
                     /\ UNCHANGED <<exc, tryExc>>
                ELSE /\ pc' = "poll"
                     /\ found' = seen
                     /\ attempts' = n
                     /\ UNCHANGED <<exc, tryExc, agent_container>>
             /\ UNCHANGED <<outcome, loopVars, wsLocals, vsLocals, agent_pool_id,
                            planPolls, plan_response, plan_data, dataVars, remoteVars, faultVars,
                            restoreHist, mutatingCalls, resourceHist, cleanupRan,
                            orgsDone>>
       \/ TryFail("poll", {"DockerException"}, FALSE)
    /\ UNCHANGED <<inputVars, apiVars, mapVars, auxVars>>

\* the container runtime brings the started container up (the container
\* state is read by the poll)
ContainerStarts ==
    /\ pc = "poll"
    /\ \E o \in Orgs :
          /\ containers[o] = "starting"
          /\ containers' = [containers EXCEPT ![o] = "running"]
    /\ UNCHANGED <<inputVars, apiVars, mapVars, auxVars, ctlVars, loopVars, wsLocals, vsLocals,
                   agentLocals, pollVars, dataVars, wsRemote, vsRemote, pools,
                   smkWorkspaces, histVars>>

\* the agent process exits on its own; remove=True removes the container
\* (the container state is read by the poll, before the logs are pulled and
\* when the container is stopped)
ContainerExits ==
    /\ pc \in {"poll", "agent_logs", "fin_stop"}
    /\ \E o \in Orgs :
          /\ containers[o] \in {"starting", "running"}
          /\ containers' = [containers EXCEPT ![o] = "exited"]
    /\ UNCHANGED <<inputVars, apiVars, mapVars, auxVars, ctlVars, loopVars, wsLocals, vsLocals,
                   agentLocals, pollVars, dataVars, wsRemote, vsRemote, pools,
                   smkWorkspaces, histVars>>

\* if agent_container.exists() and agent_container.state.running: logs()
AgentLogs ==
    /\ pc = "agent_logs"
    /\ \/ /\ pc' = IF fn = "ws" THEN FinallyPc ELSE "vs_org"
          /\ UNCHANGED <<exc, outcome, loopVars, wsLocals, vsLocals, agentLocals,
                         pollVars, dataVars, remoteVars, histVars>>
       \/ /\ containers[agent_container] = "running"
          /\ TryFail("agent_logs", {"DockerException"}, FALSE)
    /\ UNCHANGED <<inputVars, apiVars, mapVars, auxVars>>

\* finally: if agent_container: self._stop_agent_container(agent_container)
FinStop ==
    /\ pc = "fin_stop"
    /\ \/ /\ agent_container = "none"
          /\ pc' = "fin_pool"
          /\ cleanupRan' = cleanupRan \cup {"fin_stop"}
          /\ UNCHANGED <<exc, outcome, loopVars, wsLocals, vsLocals, agentLocals,
                         pollVars, dataVars, remoteVars, faultVars, tryExc,
                         restoreHist, mutatingCalls, resourceHist, orgsDone>>
       \/ /\ agent_container # "none"
          /\ containers' = [containers EXCEPT ![agent_container] = "exited"]
          /\ pc' = "fin_pool"
          /\ cleanupRan' = cleanupRan \cup {"fin_stop"}
          /\ UNCHANGED <<exc, outcome, loopVars, wsLocals, vsLocals, agentLocals,
                         pollVars, dataVars, wsRemote, vsRemote, pools,
                         smkWorkspaces, faultVars, tryExc, restoreHist,
                         mutatingCalls, resourceHist, orgsDone>>
       \/ /\ agent_container # "none"
          /\ FinFail("fin_stop", FALSE)
    /\ UNCHANGED <<inputVars, apiVars, mapVars, auxVars>>

\* finally: if agent_pool_id: self._delete_agent_pool(agent_pool_id)
FinDeletePool ==
    /\ pc = "fin_pool"
    /\ \/ /\ agent_pool_id = "none"
          /\ pc' = "fin_exit"
          /\ cleanupRan' = cleanupRan \cup {"fin_pool"}
          /\ UNCHANGED <<exc, outcome, loopVars, wsLocals, vsLocals, agentLocals,
                         pollVars, dataVars, remoteVars, faultVars, tryExc,
                         restoreHist, mutatingCalls, resourceHist, orgsDone>>
       \/ /\ agent_pool_id # "none"
          /\ pools' = pools \ {agent_pool_id}
          /\ Issued("fin_pool", TRUE)
          /\ pc' = "fin_exit"
          /\ cleanupRan' = cleanupRan \cup {"fin_pool"}
          /\ UNCHANGED <<exc, outcome, loopVars, wsLocals, vsLocals, agentLocals,
                         pollVars, dataVars, wsRemote, vsRemote, containers,
                         smkWorkspaces, faultVars, tryExc, restoreHist,
                         resourceHist, orgsDone>>
       \/ /\ agent_pool_id # "none"
          /\ FinFail("fin_pool", TRUE)
    /\ UNCHANGED <<inputVars, apiVars, mapVars, auxVars>>

\* the end of the finally block: a propagating exception leaves the function
\* (there is no except clause); otherwise the workspace variant goes on to
\* the next organization and the variable set variant returns
FinExit ==
    /\ pc = "fin_exit"
    /\ IF exc # NoExc
       THEN /\ pc' = "done"
            /\ outcome' = "raised"
            /\ UNCHANGED orgsDone
       ELSE IF fn = "ws"
       THEN /\ pc' = "ws_org"
            /\ orgsDone' = orgsDone \cup {organization_id}
            /\ UNCHANGED outcome
       ELSE /\ pc' = "done"
            /\ outcome' = "returned"
            /\ UNCHANGED orgsDone
    /\ UNCHANGED <<inputVars, apiVars, mapVars, auxVars, exc, loopVars, wsLocals, vsLocals, agentLocals,
                   pollVars, dataVars, remoteVars, faultVars, tryExc, restoreHist,
                   mutatingCalls, resourceHist, cleanupRan>>

\* ------------------------------------------------------------------------
\* Steps shared by the two variants: the run trigger, _get_plan
\* ------------------------------------------------------------------------

\* run_data = POST /runs; if len(run_data) == 0: raise TerraformExporterPlanError
TriggerRun ==
    /\ pc = "trigger_run"
    /\ \/ /\ Issued("trigger_run", TRUE)
          /\ planPolls' = 0
          /\ pc' = "get_plan"
          /\ UNCHANGED <<exc, outcome, loopVars, wsLocals, vsLocals, agentLocals,
                         attempts, found, plan_response, plan_data, dataVars,
                         remoteVars,
                         faultVars, tryExc, restoreHist, resourceHist, cleanupRan,
                         orgsDone>>
       \/ TryFail("trigger_run", {"RuntimeError", "TerraformExporterPlanError"}, TRUE)
    /\ UNCHANGED <<inputVars, apiVars, mapVars, auxVars>>

\* one iteration of the loop of _get_plan
GetPlan ==
    /\ pc = "get_plan"
    /\ \/ \E status \in PlanStatuses, hasLog \in BOOLEAN :
             /\ IF status = "pending"
                THEN /\ planPolls < MaxPlanPolls
                     /\ planPolls' = planPolls + 1
                     /\ plan_response' = PlanResponse(status, hasLog)
                     /\ pc' = "get_plan"
                     /\ UNCHANGED plan_data
                ELSE /\ plan_response' = PlanResponse(status, hasLog)
                     /\ plan_data' = PlanResult(status, hasLog)
                     /\ pc' = IF fn = "ws" THEN "ws_scan" ELSE "vs_scan"
                     /\ UNCHANGED planPolls
             /\ UNCHANGED <<exc, outcome, loopVars, wsLocals, vsLocals, agentLocals,
                            attempts, found, dataVars, remoteVars, histVars>>
       \/ TryFail("get_plan", {"RuntimeError"}, FALSE)
    /\ UNCHANGED <<inputVars, apiVars, mapVars, auxVars>>

\* ------------------------------------------------------------------------
\* _enrich_workspace_variable_data
\* ------------------------------------------------------------------------

\* the two guards, and the grouping of the sensitive variables
WsGuard ==
    /\ pc = "ws_guard"
    /\ IF ~RuntimeAvailable(docker_available, podman_available)
       THEN Return /\ UNCHANGED orgQueue
       ELSE IF ~confirm
       THEN Return /\ UNCHANGED orgQueue
       ELSE IF Len(Organizations(sensitive)) = 0
       THEN Return /\ UNCHANGED orgQueue
       ELSE /\ orgQueue' = Organizations(sensitive)
            /\ pc' = "ws_org"
            /\ UNCHANGED <<exc, outcome>>
    /\ UNCHANGED <<inputVars, apiVars, mapVars, auxVars, organization_id, wsQueue, vsQueue, wsLocals,
                   vsLocals, agentLocals, pollVars, dataVars, remoteVars, histVars>>

\* for organization_id, workspaces in organizations.items(): the locals are
\* reset; after the last organization the function returns the data
WsOrg_Next ==
    /\ pc = "ws_org"
    /\ IF orgQueue = << >>
       THEN /\ Return
            /\ UNCHANGED <<loopVars, wsLocals, agentLocals, cleanupRan>>
       ELSE /\ organization_id' = Head(orgQueue)
            /\ orgQueue' = Tail(orgQueue)
            /\ wsQueue' = WorkspacesOf(Head(orgQueue), sensitive)
            /\ agent_pool_id' = "none"
            /\ agent_container' = "none"
            /\ current_workspace_id' = "none"
            /\ workspace_data_backup' = NoBackup
            /\ restored_agent' = TRUE
            /\ cleanupRan' = {}
            /\ pc' = "create_pool"
            /\ UNCHANGED <<exc, outcome, vsQueue>>
    /\ UNCHANGED <<inputVars, apiVars, mapVars, auxVars, vsLocals, pollVars, dataVars, remoteVars,
                   faultVars, tryExc, restoreHist, mutatingCalls, resourceHist,
                   orgsDone>>

\* for workspace_id, workspace_variables in workspaces.items(): a workspace
\* without a current configuration version is skipped
WsLoop ==
    /\ pc = "ws_loop"
    /\ IF wsQueue = << >>
       THEN /\ pc' = "agent_logs"
            /\ UNCHANGED <<wsQueue, current_workspace_id>>
       ELSE /\ current_workspace_id' = Head(wsQueue)
            /\ wsQueue' = Tail(wsQueue)
            /\ pc' = IF hasConfig[Head(wsQueue)] THEN "ws_backup" ELSE "ws_loop"
    /\ UNCHANGED <<inputVars, apiVars, mapVars, auxVars, exc, outcome, orgQueue, organization_id,
                   vsQueue, workspace_data_backup, restored_agent, vsLocals,
                   agentLocals, pollVars, dataVars, remoteVars, histVars>>

\* workspace_data_backup = GET /workspaces/{workspace_id} [0]
WsBackup ==
    /\ pc = "ws_backup"
    /\ \/ /\ workspace_data_backup' = wsRemote[current_workspace_id]
          /\ backupTaken' = [backupTaken EXCEPT ![current_workspace_id] =
                                wsRemote[current_workspace_id]]
          /\ pc' = "ws_repoint"
          /\ UNCHANGED <<exc, outcome, loopVars, current_workspace_id,
                         restored_agent, vsLocals, agentLocals, pollVars, dataVars,
                         remoteVars, faultVars, tryExc, repointed, restoreIssued,
                         restoreApplied, mutatingCalls, resourceHist, cleanupRan,
                         orgsDone>>
       \/ TryFail("ws_backup", {"RuntimeError"}, FALSE)
    /\ UNCHANGED <<inputVars, apiVars, mapVars, auxVars>>

\* PATCH /workspaces/{workspace_id} to the agent pool; restored_agent = False
WsRepoint ==
    /\ pc = "ws_repoint"
    /\ \/ /\ wsRemote' = [wsRemote EXCEPT ![current_workspace_id] =
                             RepointRequest(agent_pool_id)]
          /\ restored_agent' = FlagAfterRepoint
          /\ repointed' = repointed \cup {current_workspace_id}
          /\ restoreIssued' = [restoreIssued EXCEPT ![current_workspace_id] = 0]
          /\ restoreApplied' = [restoreApplied EXCEPT ![current_workspace_id] = 0]
          /\ Issued("ws_repoint", TRUE)
          /\ pc' = "trigger_run"
          /\ UNCHANGED <<exc, outcome, loopVars, current_workspace_id,
                         workspace_data_backup, vsLocals, agentLocals, pollVars,
                         dataVars, vsRemote, pools, containers, smkWorkspaces,
                         faultVars, tryExc, backupTaken, resourceHist, cleanupRan,
                         orgsDone>>
       \/ TryFail("ws_repoint", {"RuntimeError"}, TRUE)
    /\ UNCHANGED <<inputVars, apiVars, mapVars, auxVars>>

\* if plan_data.get("attributes.log-read-url"): read the log and scan it
WsScan ==
    /\ pc = "ws_scan"
    /\ \/ /\ IF plan_data.log_read_url
             THEN \E log \in Logs :
                     value' = ScanLog(value, log,
                                      WorkspaceVariables(current_workspace_id, sensitive),
                                      VarKey)
             ELSE UNCHANGED value
          /\ pc' = "ws_restore"
          /\ plan_data' = EmptyPlan
          /\ plan_response' = EmptyPlan
          /\ planPolls' = 0
          /\ UNCHANGED <<exc, outcome, loopVars, wsLocals, vsLocals, agentLocals,
                         attempts, found, vsValue, remoteVars, histVars>>
       \/ /\ plan_data.log_read_url
          /\ TryFail("ws_scan", {"FileNotFoundError"}, FALSE)
    /\ UNCHANGED <<inputVars, apiVars, mapVars, auxVars>>

\* self._restore_workspace_exec_mode(...); restored_agent = True
WsRestore ==
    /\ pc = "ws_restore"
    /\ restoreIssued' = [restoreIssued EXCEPT ![current_workspace_id] = @ + 1]
    /\ \/ /\ wsRemote' = [wsRemote EXCEPT ![current_workspace_id] =
                             RestoreRequest(workspace_data_backup)]
          /\ restoreApplied' = [restoreApplied EXCEPT ![current_workspace_id] = @ + 1]
          /\ restored_agent' = FlagAfterRestore
          /\ Issued("ws_restore", TRUE)
          /\ pc' = "ws_loop"
          /\ UNCHANGED <<exc, outcome, loopVars, current_workspace_id,
                         workspace_data_backup, vsLocals, agentLocals, pollVars,
                         dataVars, vsRemote, pools, containers, smkWorkspaces,
                         faultVars, tryExc, backupTaken, repointed, resourceHist,
                         cleanupRan, orgsDone>>
       \/ /\ TryFailCore("ws_restore", {"RuntimeError"}, TRUE)
          /\ UNCHANGED <<backupTaken, repointed, restoreApplied>>
    /\ UNCHANGED <<inputVars, apiVars, mapVars, auxVars>>

\* finally: if not restored_agent: self._restore_workspace_exec_mode(...)
FinRestore ==
    /\ pc = "fin_restore"
    /\ \/ /\ restored_agent
          /\ pc' = "fin_stop"
          /\ cleanupRan' = cleanupRan \cup {"fin_restore"}
          /\ UNCHANGED <<exc, outcome, loopVars, wsLocals, vsLocals, agentLocals,
                         pollVars, dataVars, remoteVars, faultVars, tryExc,
                         restoreHist, mutatingCalls, resourceHist, orgsDone>>
       \/ /\ ~restored_agent
          /\ restoreIssued' = [restoreIssued EXCEPT ![current_workspace_id] = @ + 1]
          /\ \/ /\ wsRemote' = [wsRemote EXCEPT ![current_workspace_id] =
                                   RestoreRequest(workspace_data_backup)]
                /\ restoreApplied' =
                       [restoreApplied EXCEPT ![current_workspace_id] = @ + 1]
                /\ Issued("fin_restore", TRUE)
                /\ pc' = "fin_stop"
                /\ cleanupRan' = cleanupRan \cup {"fin_restore"}
                /\ UNCHANGED <<exc, outcome, loopVars, wsLocals, vsLocals,
                               agentLocals, pollVars, dataVars, vsRemote, pools,
                               containers, smkWorkspaces, faultVars, tryExc,
                               backupTaken, repointed, resourceHist, orgsDone>>
             \/ /\ FinFailCore("fin_restore", TRUE)
                /\ UNCHANGED <<backupTaken, repointed, restoreApplied>>
    /\ UNCHANGED <<inputVars, apiVars, mapVars, auxVars>>

\* ------------------------------------------------------------------------
\* _enrich_variable_set_data
\* ------------------------------------------------------------------------

\* the two guards; the locals are set once, before the try block
VsGuard ==
    /\ pc = "vs_guard"
    /\ IF ~RuntimeAvailable(docker_available, podman_available)
       THEN Return /\ UNCHANGED orgQueue
       ELSE IF ~confirm
       THEN Return /\ UNCHANGED orgQueue
       ELSE /\ orgQueue' = OrgIds
            /\ pc' = "vs_org"
            /\ UNCHANGED <<exc, outcome>>
    /\ UNCHANGED <<inputVars, apiVars, mapVars, auxVars, organization_id, wsQueue, vsQueue, wsLocals,
                   vsLocals, agentLocals, pollVars, dataVars, remoteVars, histVars>>

\* for organization in data.get("organizations"): inside the one try block;
\* after the last organization control falls into the finally block
VsOrg_Next ==
    /\ pc = "vs_org"
    /\ IF orgQueue = << >>
       THEN /\ pc' = FinallyPc
            /\ orgsDone' = IF organization_id = "none" THEN orgsDone
                           ELSE orgsDone \cup {organization_id}
            /\ UNCHANGED <<orgQueue, organization_id>>
       ELSE /\ organization_id' = Head(orgQueue)
            /\ orgQueue' = Tail(orgQueue)
            /\ orgsDone' = IF organization_id = "none" THEN orgsDone
                           ELSE orgsDone \cup {organization_id}
            /\ pc' = "vs_projects"
    /\ UNCHANGED <<inputVars, apiVars, mapVars, auxVars, exc, outcome, wsQueue, vsQueue, wsLocals,
                   vsLocals, agentLocals, pollVars, dataVars, remoteVars, faultVars,
                   tryExc, restoreHist, mutatingCalls, resourceHist, cleanupRan>>

\* projects = GET /organizations/{id}/projects
VsGetProjects ==
    /\ pc = "vs_projects"
    /\ \/ /\ pc' = "create_pool"
          /\ UNCHANGED <<exc, outcome, loopVars, wsLocals, vsLocals, agentLocals,
                         pollVars, dataVars, remoteVars, histVars>>
       \/ TryFail("vs_projects", {"RuntimeError"}, FALSE)
    /\ UNCHANGED <<inputVars, apiVars, mapVars, auxVars>>

\* new_workspace = POST /organizations/{id}/workspaces [0]
VsCreateWorkspace ==
    /\ pc = "vs_create_ws"
    /\ \/ /\ new_workspace' = SmkWorkspaceId[organization_id]
          /\ smkWorkspaces' = smkWorkspaces \cup {SmkWorkspaceId[organization_id]}
          /\ Issued("vs_create_ws", TRUE)
          /\ pc' = "vs_push"
          /\ UNCHANGED <<exc, outcome, loopVars, wsLocals,
                         variable_set_relationship_backup, var_set_reset, var_set_id,
                         agentLocals, pollVars, dataVars, wsRemote, vsRemote, pools,
                         containers, faultVars, tryExc, restoreHist, resourceHist,
                         cleanupRan, orgsDone>>
       \/ TryFail("vs_create_ws", {"RuntimeError"}, TRUE)
    /\ UNCHANGED <<inputVars, apiVars, mapVars, auxVars>>

\* push = docker.run(image=push_image, detach=False, remove=True, ...)
VsPush ==
    /\ pc = "vs_push"
    /\ \/ /\ pc' = "vs_agent_patch"
          /\ UNCHANGED <<exc, outcome, loopVars, wsLocals, vsLocals, agentLocals,
                         pollVars, dataVars, remoteVars, histVars>>
       \/ TryFail("vs_push", {"DockerException"}, FALSE)
    /\ UNCHANGED <<inputVars, apiVars, mapVars, auxVars>>

\* PATCH /workspaces/{new_workspace} to the agent pool, then the variable
\* sets of the organization are collected
VsAgentPatch ==
    /\ pc = "vs_agent_patch"
    /\ \/ /\ vsQueue' = VariableSetsOf(organization_id)
          /\ Issued("vs_agent_patch", TRUE)
          /\ pc' = "vs_loop"
          /\ UNCHANGED <<exc, outcome, orgQueue, organization_id, wsQueue, wsLocals,
                         vsLocals, agentLocals, pollVars, dataVars, remoteVars,
                         faultVars, tryExc, restoreHist, resourceHist, cleanupRan,
                         orgsDone>>
       \/ TryFail("vs_agent_patch", {"RuntimeError"}, TRUE)
    /\ UNCHANGED <<inputVars, apiVars, mapVars, auxVars>>

\* for var_set in variable_sets_in_organization
VsLoop ==
    /\ pc = "vs_loop"
    /\ IF vsQueue = << >>
       THEN /\ pc' = "agent_logs"
            /\ UNCHANGED <<vsQueue, var_set_id>>
       ELSE /\ var_set_id' = Head(vsQueue)
            /\ vsQueue' = Tail(vsQueue)
            /\ pc' = "vs_backup"
    /\ UNCHANGED <<inputVars, apiVars, mapVars, auxVars, exc, outcome, orgQueue, organization_id,
                   wsQueue, wsLocals, new_workspace, variable_set_relationship_backup,
                   var_set_reset, agentLocals, pollVars, dataVars, remoteVars,
                   histVars>>

\* variable_set_relationship_backup = GET /varsets/{id} [0]; var_set_reset = False
VsBackup ==
    /\ pc = "vs_backup"
    /\ \/ /\ variable_set_relationship_backup' = vsRemote[var_set_id]
          /\ var_set_reset' = FALSE
          /\ pc' = "vs_attach"
          /\ UNCHANGED <<exc, outcome, loopVars, wsLocals, new_workspace, var_set_id,
                         agentLocals, pollVars, dataVars, remoteVars, histVars>>
       \/ TryFail("vs_backup", {"RuntimeError"}, FALSE)
    /\ UNCHANGED <<inputVars, apiVars, mapVars, auxVars>>

\* PATCH /varsets/{id}: attach to the disposable workspace only
VsAttach ==
    /\ pc = "vs_attach"
    /\ \/ /\ vsRemote' = [vsRemote EXCEPT ![var_set_id] = AttachRequest(new_workspace)]
          /\ Issued("vs_attach", TRUE)
          /\ pc' = "trigger_run"
          /\ UNCHANGED <<exc, outcome, loopVars, wsLocals, vsLocals, agentLocals,
                         pollVars, dataVars, wsRemote, pools, containers,
                         smkWorkspaces, faultVars, tryExc, restoreHist, resourceHist,
                         cleanupRan, orgsDone>>
       \/ TryFail("vs_attach", {"RuntimeError"}, TRUE)
    /\ UNCHANGED <<inputVars, apiVars, mapVars, auxVars>>

\* if plan_data.get("attributes.log-read-url"): read the log and scan it
VsScan ==
    /\ pc = "vs_scan"
    /\ \/ /\ IF plan_data.log_read_url
             THEN \E log \in Logs :
                     vsValue' = ScanLog(vsValue, log, VariableSetVariables(var_set_id),
                                        VsVarKey)
             ELSE UNCHANGED vsValue
          /\ pc' = "vs_reset"
          /\ plan_data' = EmptyPlan
          /\ plan_response' = EmptyPlan
          /\ planPolls' = 0
          /\ UNCHANGED <<exc, outcome, loopVars, wsLocals, vsLocals, agentLocals,
                         attempts, found, value, remoteVars, histVars>>
       \/ /\ plan_data.log_read_url
          /\ TryFail("vs_scan", {"FileNotFoundError"}, FALSE)
    /\ UNCHANGED <<inputVars, apiVars, mapVars, auxVars>>

\* reset_variable_set_relationships(...); var_set_reset = True
VsReset ==
    /\ pc = "vs_reset"
    /\ \/ /\ vsRemote' = [vsRemote EXCEPT ![var_set_id] =
                             ResetRequest(variable_set_relationship_backup)]
          /\ var_set_reset' = TRUE
          /\ Issued("vs_reset", TRUE)
          /\ pc' = "vs_loop"
          /\ UNCHANGED <<exc, outcome, loopVars, wsLocals, new_workspace,
                         variable_set_relationship_backup, var_set_id, agentLocals,
                         pollVars, dataVars, wsRemote, pools, containers,
                         smkWorkspaces, faultVars, tryExc, restoreHist, resourceHist,
                         cleanupRan, orgsDone>>
       \/ TryFail("vs_reset", {"RuntimeError"}, TRUE)
    /\ UNCHANGED <<inputVars, apiVars, mapVars, auxVars>>

\* finally: if new_workspace is not None: DELETE /workspaces/{new_workspace}
FinDeleteWorkspace ==
    /\ pc = "fin_delete_ws"
    /\ \/ /\ new_workspace = "none"
          /\ pc' = "fin_reset"
          /\ cleanupRan' = cleanupRan \cup {"fin_delete_ws"}
          /\ UNCHANGED <<exc, outcome, loopVars, wsLocals, vsLocals, agentLocals,
                         pollVars, dataVars, remoteVars, faultVars, tryExc,
                         restoreHist, mutatingCalls, resourceHist, orgsDone>>
       \/ /\ new_workspace # "none"
          /\ smkWorkspaces' = smkWorkspaces \ {new_workspace}
          /\ Issued("fin_delete_ws", TRUE)
          /\ pc' = "fin_reset"
          /\ cleanupRan' = cleanupRan \cup {"fin_delete_ws"}
          /\ UNCHANGED <<exc, outcome, loopVars, wsLocals, vsLocals, agentLocals,
                         pollVars, dataVars, wsRemote, vsRemote, pools, containers,
                         faultVars, tryExc, restoreHist, resourceHist, orgsDone>>
       \/ /\ new_workspace # "none"
          /\ FinFail("fin_delete_ws", TRUE)
    /\ UNCHANGED <<inputVars, apiVars, mapVars, auxVars>>

\* finally: if not var_set_reset: reset_variable_set_relationships(...)
FinReset ==
    /\ pc = "fin_reset"
    /\ \/ /\ var_set_reset
          /\ pc' = "fin_stop"
          /\ cleanupRan' = cleanupRan \cup {"fin_reset"}
          /\ UNCHANGED <<exc, outcome, loopVars, wsLocals, vsLocals, agentLocals,
                         pollVars, dataVars, remoteVars, faultVars, tryExc,
                         restoreHist, mutatingCalls, resourceHist, orgsDone>>
       \/ /\ ~var_set_reset
          /\ vsRemote' = [vsRemote EXCEPT ![var_set_id] =
                             ResetRequest(variable_set_relationship_backup)]
          /\ Issued("fin_reset", TRUE)
          /\ pc' = "fin_stop"
          /\ cleanupRan' = cleanupRan \cup {"fin_reset"}
          /\ UNCHANGED <<exc, outcome, loopVars, wsLocals, vsLocals, agentLocals,
                         pollVars, dataVars, wsRemote, pools, containers,
                         smkWorkspaces, faultVars, tryExc, restoreHist, resourceHist,
                         orgsDone>>
       \/ /\ ~var_set_reset
          /\ FinFail("fin_reset", TRUE)
    /\ UNCHANGED <<inputVars, apiVars, mapVars, auxVars>>

\* ------------------------------------------------------------------------
\* The enrichment specification
\* ------------------------------------------------------------------------

Next ==
    \/ WsGuard
    \/ WsOrg_Next
    \/ CreateAgentPool
    \/ CreateAgentToken
    \/ DockerRun
    \/ PollAgent
    \/ ContainerStarts
    \/ ContainerExits
    \/ WsLoop
    \/ WsBackup
    \/ WsRepoint
    \/ TriggerRun
    \/ GetPlan
    \/ WsScan
    \/ WsRestore
    \/ AgentLogs
    \/ FinRestore
    \/ FinStop
    \/ FinDeletePool
    \/ FinExit
    \/ VsGuard
    \/ VsOrg_Next
    \/ VsGetProjects
    \/ VsCreateWorkspace
    \/ VsPush
    \/ VsAgentPatch
    \/ VsLoop
    \/ VsBackup
    \/ VsAttach
    \/ VsScan
    \/ VsReset
    \/ FinDeleteWorkspace
    \/ FinReset

Spec == Init /\ [][Next]_vars

\* ------------------------------------------------------------------------
\* The API client: _call_api and _extract_data_from_api
\* ------------------------------------------------------------------------

\* How many pages a paginated answer may have.
MaxPages == 2

HTTP_OK == 200

HTTP_NO_CONTENT == 204

HTTP_NOT_FOUND == 404

HTTP_SERVER_ERROR == 500

Methods == {"GET", "POST", "PATCH", "DELETE"}

Paths == {"/runs", "/workspaces/w1"}

\* raw objects of the API: an id and attributes.name (a sequence of
\* characters; the empty sequence is a missing or empty name)
Item(id, name) == [id |-> id, name |-> name]

Items == {Item("a", <<"s", "m", "k">>), Item("b", <<"o", "p", "s">>), Item("c", << >>)}

\* the "data" member of a response body: missing, one object (which may be
\* the empty object) or a collection
NullData == [kind |-> "null", items |-> << >>]

ObjectData(item) == [kind |-> "object", items |-> <<item>>]

EmptyObject == [kind |-> "object", items |-> << >>]

ListData(items) == [kind |-> "list", items |-> items]

PageData ==
    {NullData, EmptyObject, ListData(<< >>)}
    \cup {ObjectData(i) : i \in Items}
    \cup {ListData(<<q[1], q[2]>>) : q \in {r \in Items \X Items : r[1] # r[2]}}

\* what the server answers: a status, and for a body its data and whether it
\* has links.next
Responses ==
    [status : {HTTP_OK}, data : PageData, next : BOOLEAN]
    \cup [status : {HTTP_NO_CONTENT, HTTP_NOT_FOUND, HTTP_SERVER_ERROR},
          data : {NullData}, next : {FALSE}]

\* the include_pattern argument: None, or a pattern given as the literal
\* prefix it requires of a name (re.match anchors at the start of the name)
NoPattern == [given |-> FALSE, prefix |-> << >>]

Pattern(prefix) == [given |-> TRUE, prefix |-> prefix]

Patterns == {NoPattern, Pattern(<<"s">>)}

\* the properties argument: None, or a list of dotted paths
NoProperties == [given |-> FALSE, paths |-> << >>]

Properties(paths) == [given |-> TRUE, paths |-> paths]

PropertyLists ==
    {NoProperties, Properties(<< >>), Properties(<<"id">>),
     Properties(<<"id", "attributes.name">>)}

\* 404 is tolerated for GET only
CallApiNotFoundForGetOnly(m, response) ==
    IF response.status = HTTP_NOT_FOUND /\ m = "GET"
    THEN [error |-> "none", data |-> EmptyObject, next |-> FALSE]
    ELSE IF response.status >= 400
    THEN [error |-> "RuntimeError", data |-> NullData, next |-> FALSE]
    ELSE IF response.status = HTTP_NO_CONTENT
    THEN [error |-> "none", data |-> NullData, next |-> FALSE]
    ELSE [error |-> "none", data |-> response.data, next |-> response.next]

\* _call_api: the payload it returns, or the error it raises
CallApi(m, response) ==
    IF response.status = HTTP_NOT_FOUND
    THEN [error |-> "none", data |-> EmptyObject, next |-> FALSE]
    ELSE IF response.status >= 400
    THEN [error |-> "RuntimeError", data |-> NullData, next |-> FALSE]
    ELSE IF response.status = HTTP_NO_CONTENT
    THEN [error |-> "none", data |-> NullData, next |-> FALSE]
    ELSE [error |-> "none", data |-> response.data, next |-> response.next]

\* if response_payload.get("data"): a non-empty object or collection
Truthy(data) == data.kind # "null" /\ data.items # << >>

\* a collection is appended like an object: only one entry is added
PageItemsAppendOnly(data) ==
    IF data.kind = "null" \/ data.items = << >> THEN << >> ELSE <<data.items[1]>>

\* what one payload adds to raw_data: append for an object, extend for a list
PageItems(data) ==
    IF ~Truthy(data) THEN << >>
    ELSE IF data.kind = "object" THEN <<data.items[1]>>
    ELSE data.items

\* if include_pattern is None: include_pattern = ".*" (no prefix required)
IncludePrefix(pattern) == IF pattern.given THEN pattern.prefix ELSE << >>

\* include_regex.match(name) is not None
Matches(pattern, name) == StartsWith(name, IncludePrefix(pattern))

\* a raw datum is skipped when it has a name that the pattern does not match
Skipped(pattern, item) == item.name # << >> /\ ~Matches(pattern, item.name)

\* datum[property_] = raw_datum.get(property_) for each property
Project(item, props) ==
    [p \in Range(props.paths) |-> IF p = "id" THEN item.id ELSE item.name]

\* if properties: (neither None nor the empty list)
HasProperties(props) == props.given /\ props.paths # << >>

RECURSIVE FilterAndProject(_, _, _)
\* the loop over raw_data that builds the returned list
FilterAndProject(raw, pattern, props) ==
    IF raw = << >> THEN << >>
    ELSE LET rest == FilterAndProject(Tail(raw), pattern, props)
         IN IF Skipped(pattern, Head(raw)) THEN rest
            ELSE IF HasProperties(props) THEN <<Project(Head(raw), props)>> \o rest
            ELSE rest

InitApi ==
    /\ fn = "api"
    /\ docker_available = FALSE
    /\ podman_available = FALSE
    /\ confirm = FALSE
    /\ sensitive = [v \in Vars |-> FALSE]
    /\ hasConfig = [w \in Workspaces |-> TRUE]
    /\ pc = "idle"
    /\ SagaStart
    /\ apiPc = "fetch"
    /\ responses = << >>
    /\ method \in Methods
    /\ path \in Paths
    /\ properties \in PropertyLists
    /\ include_pattern \in Patterns
    /\ url = <<path, 1>>
    /\ raw_data = << >>
    /\ apiResult = << >>
    /\ apiError = "none"
    /\ MapIdle
    /\ WsxIdle
    /\ PrepIdle
    /\ ImpIdle

\* one iteration of `while True`: _call_api, then the data is added to
\* raw_data and links.next, if any, becomes the url
ApiFetch ==
    /\ apiPc = "fetch"
    /\ \E response \in Responses :
          /\ response.next => Len(responses) + 1 < MaxPages
          /\ responses' = Append(responses, response)
          /\ LET payload == CallApi(method, response)
             IN IF payload.error # "none"
                THEN /\ apiError' = payload.error
                     /\ apiPc' = "done"
                     /\ UNCHANGED <<raw_data, url>>
                ELSE /\ raw_data' = raw_data \o PageItems(payload.data)
                     /\ IF payload.next
                        THEN /\ url' = <<path, url[2] + 1>>
                             /\ apiPc' = "fetch"
                        ELSE /\ apiPc' = "filter"
                             /\ UNCHANGED url
                     /\ UNCHANGED apiError
    /\ UNCHANGED <<sagaVars, mapVars, auxVars, method, path, properties, include_pattern, apiResult>>

\* the include pattern and the projection, then return data
ApiFilter ==
    /\ apiPc = "filter"
    /\ apiResult' = FilterAndProject(raw_data, include_pattern, properties)
    /\ apiPc' = "done"
    /\ UNCHANGED <<sagaVars, mapVars, auxVars, responses, method, path, properties, include_pattern,
                   url, raw_data, apiError>>

NextApi == ApiFetch \/ ApiFilter

SpecApi == InitApi /\ [][NextApi]_vars

\* ------------------------------------------------------------------------
\* _map_data: strings
\* ------------------------------------------------------------------------

\* Names, keys and ids are sequences of characters.
Letters == {"a", "b", "d", "e", "k", "m", "n", "o", "p", "s", "v", "w", "x", "A", "B"}

Digits == {"1", "2", "9"}

Lower(c) == CASE c = "A" -> "a" [] c = "B" -> "b" [] OTHER -> c

\* slugify: lower case, every character outside [-a-z0-9] becomes "-"
SlugChar(c) == IF Lower(c) \in (Letters \cup Digits) THEN Lower(c) ELSE "-"

RECURSIVE CollapseDashes(_)
\* slugify: a run of "-" becomes one "-"
CollapseDashes(s) ==
    IF Len(s) <= 1 THEN s
    ELSE IF s[1] = "-" /\ s[2] = "-" THEN CollapseDashes(Tail(s))
    ELSE <<s[1]>> \o CollapseDashes(Tail(s))

RECURSIVE StripDashes(_)
\* slugify: strip("-")
StripDashes(s) ==
    IF s = << >> THEN s
    ELSE IF s[1] = "-" THEN StripDashes(Tail(s))
    ELSE IF s[Len(s)] = "-" THEN StripDashes(SubSeq(s, 1, Len(s) - 1))
    ELSE s

slugify(s) == StripDashes(CollapseDashes([i \in DOMAIN s |-> SlugChar(s[i])]))

\* str.replace(old, new) for single characters
Replace(s, old, new) == [i \in DOMAIN s |-> IF s[i] = old THEN new ELSE s[i]]

\* _generate_migration_id(name): slugify(name).replace("-", "_")
GenerateMigrationId(name) == Replace(slugify(name), "-", "_")

\* f"{a}_{b}"
Composite(a, b) == a \o <<"_">> \o b

\* re.search("^[a-zA-Z_]+[a-zA-Z0-9_]*$", key) is not None
IsValidName(key) ==
    /\ key # << >>
    /\ key[1] \in Letters \cup {"_"}
    /\ \A i \in DOMAIN key : key[i] \in Letters \cup Digits \cup {"_"}

\* the replacement replaces nothing
ReplacementNameUnfixed(key, auto_fix) == key

\* key.replace("-", "_") if auto_fix_variable_names and not is_name_valid else key
ReplacementName(key, auto_fix) ==
    IF auto_fix /\ ~IsValidName(key) THEN Replace(key, "-", "_") ELSE key

\* ------------------------------------------------------------------------
\* _map_data: Terraform versions and the workflow tool
\* ------------------------------------------------------------------------

\* attributes.terraform-version: "latest", or an optional "~" / "^" prefix
\* followed by major.minor.patch and an optional pre-release tag
Latest == [kind |-> "latest", v |-> <<0, 0, 0>>, pre |-> FALSE]

Version(kind, v, pre) == [kind |-> kind, v |-> v, pre |-> pre]

\* the version written for "latest", and the one the others are compared to
PinnedVersion == Version("exact", <<1, 5, 7>>, FALSE)

\* the comparison admits the pinned version itself
SemverGreaterOrEqual(a, b) ==
    \/ a.v[1] > b.v[1]
    \/ a.v[1] = b.v[1] /\ a.v[2] > b.v[2]
    \/ a.v[1] = b.v[1] /\ a.v[2] = b.v[2] /\ a.v[3] >= b.v[3]

\* semver.match(a, ">b"): the precedence of semantic versions; a pre-release
\* comes before the release of the same major.minor.patch
SemverGreater(a, b) ==
    \/ a.v[1] > b.v[1]
    \/ a.v[1] = b.v[1] /\ a.v[2] > b.v[2]
    \/ a.v[1] = b.v[1] /\ a.v[2] = b.v[2] /\ a.v[3] > b.v[3]
    \/ a.v = b.v /\ ~a.pre /\ b.pre

\* terraform.version and terraform.workflow_tool of a stack
WorkflowTool(terraform_version) ==
    IF terraform_version.kind = "latest"
    THEN [version |-> PinnedVersion, workflow_tool |-> "TERRAFORM_FOSS"]
    ELSE IF \/ terraform_version.kind = "tilde"
            \/ terraform_version.kind = "caret"
            \/ SemverGreater(terraform_version, PinnedVersion)
    THEN [version |-> terraform_version, workflow_tool |-> "OPEN_TOFU"]
    ELSE [version |-> terraform_version, workflow_tool |-> "TERRAFORM_FOSS"]

\* ------------------------------------------------------------------------
\* _map_data: the VCS provider and the repository identifier
\* ------------------------------------------------------------------------

\* attributes.vcs-repo.service-provider ("none": no VCS configuration)
supported_providers ==
    [github |-> "github_custom", github_app |-> "github_custom",
     github_enterprise |-> "github_custom",
     bitbucket_server |-> "bitbucket_datacenter",
     gitlab_hosted |-> "gitlab", ado_services |-> "azure_devops"]

\* a namespace or repository: null, or path segments joined by "/"
NullName == [null |-> TRUE, segments |-> << >>]

Name(segments) == [null |-> FALSE, segments |-> segments]

\* segments[0] and segments[1] (sequences are indexed from 1 here)
SplitGeneric(identifier) ==
    [namespace |-> Name(<<identifier[1]>>), repository |-> Name(<<identifier[2]>>)]

\* "/".join(segments[:-1]) and segments[-1]
SplitGitlab(identifier) ==
    [namespace |-> Name(SubSeq(identifier, 1, Len(identifier) - 1)),
     repository |-> Name(<<identifier[Len(identifier)]>>)]

\* the Azure DevOps dialect reads the segments of the generic dialect
SplitAzureDevOpsAsGeneric(identifier) ==
    [namespace |-> Name(<<identifier[1]>>), repository |-> Name(<<identifier[2]>>)]

\* segments[1] and segments[3]
SplitAzureDevOps(identifier) ==
    [namespace |-> Name(<<identifier[2]>>), repository |-> Name(<<identifier[4]>>)]

\* _determine_provider: the mapped provider, the namespace and repository
\* read from the identifier (a sequence of segments, empty when the workspace
\* has none), the error raised if any, and whether is_gitlab / is_ado is set
DetermineProvider(service_provider, identifier) ==
    LET provider == IF service_provider = "none" THEN "none"
                    ELSE supported_providers[service_provider]
        n == Len(identifier)
        result(e, split, gitlab, ado) ==
            [error |-> e, provider |-> provider,
             vcs_namespace |-> split.namespace, vcs_repository |-> split.repository,
             gitlab |-> gitlab, ado |-> ado]
        nothing == [namespace |-> NullName, repository |-> NullName]
    IN IF service_provider # "none" /\ service_provider \notin DOMAIN supported_providers
       THEN [error |-> "ValueError", provider |-> service_provider,
             vcs_namespace |-> NullName, vcs_repository |-> NullName,
             gitlab |-> FALSE, ado |-> FALSE]
       ELSE IF provider = "gitlab" /\ n > 0
       THEN result("none", SplitGitlab(identifier), TRUE, FALSE)
       ELSE IF provider = "azure_devops" /\ n > 0
       THEN IF n < 4 THEN result("IndexError", nothing, FALSE, TRUE)
            ELSE result("none", SplitAzureDevOps(identifier), FALSE, TRUE)
       ELSE IF provider # "gitlab" /\ provider # "azure_devops" /\ n > 0
       THEN IF n < 2 THEN result("IndexError", nothing, FALSE, FALSE)
            ELSE result("none", SplitGeneric(identifier), FALSE, FALSE)
       ELSE result("none", nothing, FALSE, FALSE)

\* ------------------------------------------------------------------------
\* _map_data: the source data
\* ------------------------------------------------------------------------

O1 == <<"o", "1">>

P1 == <<"p", "1">>

P2 == <<"p", "2">>

\* a project that is not among the extracted projects
P9 == <<"p", "9">>

W1 == <<"w", "1">>

W2 == <<"w", "2">>

V1 == <<"v", "1">>

V2 == <<"v", "2">>

S1 == <<"s", "1">>

X1 == <<"x", "1">>

M1 == <<"m", "1">>

\* "relationships.project.data.id" not in the record
NoProject == << >>

\* "relationships.project.data.id" in the record, holding None
NullProject == <<"None">>

TerraformVersions ==
    {Latest}
    \cup {Version(k, v, FALSE) : k \in {"tilde", "caret"}, v \in {<<1, 4, 0>>, <<1, 6, 0>>}}
    \cup {Version("exact", v, p) :
            v \in {<<0, 15, 9>>, <<1, 4, 9>>, <<1, 5, 6>>, <<1, 5, 7>>, <<1, 5, 8>>,
                   <<1, 6, 0>>, <<2, 0, 0>>},
            p \in BOOLEAN}

ServiceProviders ==
    {"none", "github", "github_app", "github_enterprise", "bitbucket_server",
     "gitlab_hosted", "ado_services", "codecommit"}

\* attributes.vcs-repo.identifier split on "/" (empty: no identifier)
Identifiers ==
    {<< >>, <<"g">>, <<"g", "r">>, <<"g", "h", "r">>, <<"g", "h", "i", "r">>}

VariableKeys == {<<"b", "a", "d", "-", "n", "a", "m", "e">>, <<"b", "_", "n">>,
                 <<"1", "-", "b">>}

\* attributes.sensitive: True, False or missing
Sensitivities == {"true", "false", "none"}

ProjectNames == {<<"w", "e", "b">>, <<"a", "-", "B">>}

\* one run of _map_data: what varies in the source data and the configuration
DefaultScenario ==
    [project_name |-> <<"w", "e", "b">>, project |-> P1, terraform_version |-> Latest,
     service_provider |-> "github", identifier |-> <<"g", "r">>,
     second_service_provider |-> "none", second_identifier |-> << >>,
     key |-> <<"b", "_", "n">>, sensitive |-> "false",
     global |-> FALSE, vs_projects |-> << >>, vs_workspaces |-> << >>,
     auto_fix_variable_names |-> FALSE,
     experimental_support_variable_sets |-> FALSE]

Scenarios ==
    {[DefaultScenario EXCEPT !.terraform_version = v] : v \in TerraformVersions}
    \cup {[DefaultScenario EXCEPT !.service_provider = p, !.identifier = i] :
            p \in ServiceProviders, i \in Identifiers}
    \cup {[DefaultScenario EXCEPT !.service_provider = p,
                                  !.identifier = <<"g", "h", "i", "r">>,
                                  !.second_service_provider = q,
                                  !.second_identifier = <<"k", "l", "m", "n">>] :
            p \in {"github", "gitlab_hosted", "ado_services"},
            q \in {"gitlab_hosted", "ado_services"}}
    \cup {[DefaultScenario EXCEPT !.key = k, !.sensitive = s,
                                  !.auto_fix_variable_names = a] :
            k \in VariableKeys, s \in Sensitivities, a \in BOOLEAN}
    \cup {[DefaultScenario EXCEPT !.project_name = n, !.project = p] :
            n \in ProjectNames, p \in {P1, NoProject, P9}}
    \cup {[DefaultScenario EXCEPT !.experimental_support_variable_sets = TRUE,
                                  !.global = g, !.vs_projects = ps,
                                  !.vs_workspaces = ws] :
            g \in BOOLEAN, ps \in {<< >>, <<P1>>, <<P1, P2>>},
            ws \in {<< >>, <<W1>>, <<W1, W2>>}}

\* the workspaces of the API: the project relationship is an id or is missing
RawWorkspaces(scn) ==
    << [id |-> W1, name |-> <<"a", "p", "p">>, organization |-> O1,
        project |-> scn.project, terraform_version |-> scn.terraform_version,
        service_provider |-> scn.service_provider,
        identifier |-> scn.identifier],
       [id |-> W2, name |-> <<"d", "b">>, organization |-> O1,
        project |-> P2, terraform_version |-> Version("exact", <<1, 5, 7>>, FALSE),
        service_provider |-> scn.second_service_provider,
        identifier |-> scn.second_identifier] >>

\* datum[property_] = raw_datum.get(property_): every listed property is a
\* key of the datum, and holds None when the raw record lacks it
ExtractedWorkspace(raw) ==
    [raw EXCEPT !.project = IF raw.project = NoProject THEN NullProject ELSE raw.project]

\* the extracted data _map_data receives
SourceData(scn) ==
    [organizations |-> << [id |-> O1, name |-> <<"A", " ", "b">>] >>,
     projects |-> << [id |-> P1, name |-> scn.project_name],
                     [id |-> P2, name |-> <<"o", "p", "s">>] >>,
     workspaces |->
        [i \in DOMAIN RawWorkspaces(scn) |-> ExtractedWorkspace(RawWorkspaces(scn)[i])],
     workspace_variables |->
        << [id |-> V1, workspace |-> W1, key |-> scn.key, sensitive |-> scn.sensitive,
            category |-> "terraform"],
           [id |-> V2, workspace |-> W2, key |-> <<"o", "k">>, sensitive |-> "false",
            category |-> "env"] >>,
     variable_sets |->
        << [id |-> S1, name |-> <<"v", "s">>, description |-> <<"d">>,
            organization |-> O1, global |-> scn.global,
            projects |-> scn.vs_projects, workspaces |-> scn.vs_workspaces] >>,
     variable_set_variables |->
        << [id |-> X1, varset |-> S1, key |-> <<"k", "-", "x">>, sensitive |-> "true",
            category |-> "env"] >>,
     modules |->
        << [id |-> M1, name |-> <<"m", "o", "d">>, organization |-> O1,
            project |-> NoProject, identifier |-> <<"n", "s", "x", "m">>] >>]

\* ------------------------------------------------------------------------
\* _map_data: the mapping functions
\* ------------------------------------------------------------------------

\* The mapped records are functions from keys to values. The attributes that
\* are copied from the source record without a decision (descriptions of
\* stacks, branches, labels of stacks, ...) are left out.

\* a relationship value: the id of a record, a dict holding a migration id,
\* a list, and after the expansion null or a copy of the record
IdRef(id) == [kind |-> "id", id |-> id]

ObjectRef(migration_id) == [kind |-> "object", migration_id |-> migration_id]

ListRef(items) == [kind |-> "list", items |-> items]

NullRef == [kind |-> "null"]

EntityRef(entity) == [kind |-> "entity", entity |-> entity]

NoRelationships == << >>

RECURSIVE Flatten(_)
\* the concatenation of a sequence of sequences
Flatten(ss) == IF ss = << >> THEN << >> ELSE Head(ss) \o Flatten(Tail(ss))

\* the project if the key is in the record, else the organization
SpaceId(record) ==
    IF record.project # NoProject THEN record.project ELSE record.organization

Space(record) ==
    ("_source_id" :> record.id) @@ ("name" :> record.name)
    @@ ("requires_terraform_workflow_tool" :> FALSE)

\* _map_spaces_data: the organizations, then the projects
MapSpacesData(src) ==
    [i \in DOMAIN src.organizations |-> Space(src.organizations[i])]
    \o [i \in DOMAIN src.projects |-> Space(src.projects[i])]

\* the variables find_workspace_variable_with_invalid_name passes over
SkippedForType(sensitive_, type_) ==
    \/ sensitive_ = "true" /\ type_ = "plain"
    \/ sensitive_ = "false" /\ type_ = "secret"

FindWorkspaceVariableWithInvalidName(src, workspace_id, type_) ==
    SelectSeq(src.workspace_variables,
              LAMBDA variable :
                 /\ ~SkippedForType(variable.sensitive, type_)
                 /\ variable.workspace = workspace_id
                 /\ ~IsValidName(variable.key))

\* the record _map_stacks_data appends for a workspace
Stack(src, cfg, workspace) ==
    LET plain == FindWorkspaceVariableWithInvalidName(src, workspace.id, "plain")
        secret == FindWorkspaceVariableWithInvalidName(src, workspace.id, "secret")
        vcs_info == DetermineProvider(workspace.service_provider, workspace.identifier)
    IN ("_relationships" :> ("space" :> IdRef(SpaceId(workspace))))
       @@ ("_source_id" :> workspace.id)
       @@ ("has_variables_with_invalid_name" :>
              (Len(plain) > 0 /\ ~cfg.auto_fix_variable_names))
       @@ ("has_secret_variables_with_invalid_name" :>
              (Len(secret) > 0 /\ ~cfg.auto_fix_variable_names))
       @@ ("name" :> workspace.name)
       @@ ("terraform" :> WorkflowTool(workspace.terraform_version))
       @@ ("vcs" :> [namespace |-> vcs_info.vcs_namespace,
                     provider |-> vcs_info.provider,
                     repository |-> vcs_info.vcs_repository])

\* the first error a sequence of results holds, "none" if there is none
FirstError(results) ==
    LET failed == {i \in DOMAIN results : results[i].error # "none"}
    IN IF failed = {} THEN "none"
       ELSE results[CHOOSE i \in failed : \A j \in failed : i <= j].error

\* _map_stacks_data: the stacks, the error _determine_provider raised, and
\* the flags it set
MapStacksData(src, cfg) ==
    LET infos == [i \in DOMAIN src.workspaces |->
                     DetermineProvider(src.workspaces[i].service_provider,
                                       src.workspaces[i].identifier)]
    IN [error |-> FirstError(infos),
        stacks |-> [i \in DOMAIN src.workspaces |-> Stack(src, cfg, src.workspaces[i])],
        gitlab |-> \E i \in DOMAIN infos : infos[i].gitlab,
        ado |-> \E i \in DOMAIN infos : infos[i].ado]

\* the namespace and repository _map_modules_data reads from an identifier
ModuleVcs(identifier, gitlab, ado) ==
    LET nothing == [namespace |-> NullName, repository |-> NullName]
        n == Len(identifier)
    IN IF gitlab /\ n > 0 THEN [error |-> "none", split |-> SplitGitlab(identifier)]
       ELSE IF ado /\ n > 0
       THEN IF n < 4 THEN [error |-> "IndexError", split |-> nothing]
            ELSE [error |-> "none", split |-> SplitAzureDevOps(identifier)]
       ELSE IF ~gitlab /\ ~ado /\ n > 0
       THEN IF n < 2 THEN [error |-> "IndexError", split |-> nothing]
            ELSE [error |-> "none", split |-> SplitGeneric(identifier)]
       ELSE [error |-> "none", split |-> nothing]

\* the modules are mapped as GitHub whatever the workspaces use
ModuleVcsProviderAlwaysGithub(gitlab, ado) == "github_custom"

\* the provider the modules are mapped with
ModuleVcsProvider(gitlab, ado) ==
    IF ado THEN "azure_devops" ELSE IF gitlab THEN "gitlab" ELSE "github_custom"

\* _map_modules_data
MapModulesData(src, gitlab, ado) ==
    LET vcs == [i \in DOMAIN src.modules |->
                   ModuleVcs(src.modules[i].identifier, gitlab, ado)]
        Module(i) ==
            ("_relationships" :> ("space" :> IdRef(SpaceId(src.modules[i]))))
            @@ ("_source_id" :> src.modules[i].id)
            @@ ("name" :> src.modules[i].name)
            @@ ("vcs" :> [namespace |-> vcs[i].split.namespace,
                          provider |-> ModuleVcsProvider(gitlab, ado),
                          repository |-> vcs[i].split.repository])
    IN [error |-> FirstError(vcs),
        modules |-> [i \in DOMAIN src.modules |-> Module(i)]]

\* the attributes shared by stack variables and context variables
VariableAttributes(variable, cfg) ==
    ("name" :> variable.key)
    @@ ("replacement_name" :>
           ReplacementName(variable.key, cfg.auto_fix_variable_names))
    @@ ("type" :> IF variable.category = "terraform" THEN "terraform" ELSE "env_var")
    @@ ("valid_name" :> IsValidName(variable.key))
    @@ ("write_only" :> variable.sensitive)

\* find_workspace: the first workspace with the id (every variable of the
\* source data belongs to an extracted workspace)
FindById(records, id) ==
    records[CHOOSE i \in DOMAIN records :
               /\ records[i].id = id
               /\ \A j \in DOMAIN records : records[j].id = id => i <= j]

\* _map_stack_variables_data
MapStackVariablesData(src, cfg) ==
    LET StackVariable(variable) ==
            LET workspace == FindById(src.workspaces, variable.workspace)
            IN ("_relationships" :>
                   (("space" :> IdRef(SpaceId(workspace)))
                    @@ ("stack" :> IdRef(variable.workspace))))
               @@ ("_source_id" :> variable.id)
               @@ VariableAttributes(variable, cfg)
    IN [i \in DOMAIN src.workspace_variables |->
           StackVariable(src.workspace_variables[i])]

\* every copy of a context gets the id of the variable set as _source_id
ContextSourceIdNotComposite(project, variable_set) == variable_set.id

\* the _source_id of the copy of a context made for a project
ContextSourceId(project, variable_set) == Composite(project, variable_set.id)

\* the record(s) _map_contexts_data appends for a variable set
Contexts(variable_set) ==
    LET Context(source_id, space, stacks, labels) ==
            ("_migration_id" :> GenerateMigrationId(variable_set.id))
            @@ ("_relationships" :>
                   (("space" :> ObjectRef(GenerateMigrationId(space)))
                    @@ ("stacks" :> ListRef(stacks))))
            @@ ("_source_id" :> source_id)
            @@ ("description" :> variable_set.description)
            @@ ("labels" :> labels)
            @@ ("name" :> variable_set.name)
    IN IF variable_set.global
       THEN << Context(variable_set.id, variable_set.organization, << >>,
                       <<"autoattach:*">>) >>
       ELSE IF Len(variable_set.projects) > 0
       THEN [i \in DOMAIN variable_set.projects |->
                Context(ContextSourceId(variable_set.projects[i], variable_set),
                        variable_set.projects[i], << >>, <<"autoattach:*">>)]
       ELSE IF Len(variable_set.workspaces) > 0
       THEN << Context(variable_set.id, variable_set.organization,
                       [i \in DOMAIN variable_set.workspaces |->
                           ObjectRef(GenerateMigrationId(variable_set.workspaces[i]))],
                       << >>) >>
       ELSE << >>

\* _map_contexts_data
MapContextsData(src) ==
    Flatten([i \in DOMAIN src.variable_sets |-> Contexts(src.variable_sets[i])])

\* the record(s) _map_context_variables_data appends for a variable
ContextVariables(src, cfg, variable) ==
    LET variable_set == FindById(src.variable_sets, variable.varset)
        ContextVariable(source_id, space, context) ==
            ("_migration_id" :> GenerateMigrationId(variable.id))
            @@ ("_relationships" :>
                   (("space" :> ObjectRef(GenerateMigrationId(space)))
                    @@ ("context" :> ObjectRef(GenerateMigrationId(context)))))
            @@ ("_source_id" :> source_id)
            @@ VariableAttributes(variable, cfg)
    IN IF Len(variable_set.projects) > 0
       THEN [i \in DOMAIN variable_set.projects |->
                ContextVariable(Composite(variable_set.projects[i], variable.id),
                                variable_set.projects[i],
                                Composite(variable_set.projects[i], variable_set.id))]
       ELSE << ContextVariable(variable.id, variable_set.organization,
                               variable.varset) >>

\* _map_context_variables_data
MapContextVariablesData(src, cfg) ==
    Flatten([i \in DOMAIN src.variable_set_variables |->
                ContextVariables(src, cfg, src.variable_set_variables[i])])

\* _mark_spaces_for_terraform_custom_workflow
MarkSpaces(graph) ==
    LET custom == {graph.stacks[i]["_relationships"]["space"].id :
                      i \in {j \in DOMAIN graph.stacks :
                                graph.stacks[j]["terraform"].workflow_tool = "CUSTOM"}}
        first(id) == {i \in DOMAIN graph.spaces :
                         /\ graph.spaces[i]["_source_id"] = id
                         /\ \A j \in 1..(i - 1) : graph.spaces[j]["_source_id"] # id}
        marked == UNION {first(id) : id \in custom}
    IN [graph EXCEPT !.spaces =
           [i \in DOMAIN graph.spaces |->
               IF i \in marked
               THEN [graph.spaces[i] EXCEPT !["requires_terraform_workflow_tool"] = TRUE]
               ELSE graph.spaces[i]]]

\* ------------------------------------------------------------------------
\* _expand_relationships
\* ------------------------------------------------------------------------

\* the collections of the graph in the order of the dict, the two that are
\* passed over left out
ExpandedCollections == <<"spaces", "stacks", "modules", "stack_variables">>

\* if not type_.endswith("s"): type_ = f"{type_}s"
Pluralize(type_) ==
    CASE type_ = "space" -> "spaces"
      [] type_ = "stack" -> "stacks"
      [] type_ = "context" -> "contexts"
      [] OTHER -> type_

\* a record without the key
Without(record, key) == [k \in DOMAIN record \ {key} |-> record[k]]

\* the copy keeps the relationships of the record
CloneKeepsRelationships(record) == record

\* datum = src_datum.clone(); del datum["_relationships"]
Clone(record) == Without(record, "_relationships")

\* find_entity: a copy of the first record of the collection whose
\* _source_id equals id_, None if there is none. An id_ that is not a string
\* (None, or a record an earlier expansion put there) equals no _source_id.
FindEntity(graph, type_, ref) ==
    LET collection == graph[Pluralize(type_)]
        matching == {i \in DOMAIN collection :
                     ref.kind = "id" /\ collection[i]["_source_id"] = ref.id}
    IN IF matching = {} THEN NullRef
       ELSE EntityRef(Clone(collection[CHOOSE i \in matching : \A j \in matching : i <= j]))

\* relationships[type_] for one value of datum["_relationships"]
ExpandRef(graph, type_, ref) ==
    IF ref.kind = "list"
    THEN ListRef([i \in DOMAIN ref.items |-> FindEntity(graph, type_, ref.items[i])])
    ELSE FindEntity(graph, type_, ref)

\* datum.update({"_migration_id": ..., "_relationships": relationships})
ExpandDatum(graph, datum) ==
    LET old == IF "_relationships" \in DOMAIN datum
               THEN datum["_relationships"] ELSE NoRelationships
        relationships == [t \in DOMAIN old |-> ExpandRef(graph, t, old[t])]
    IN ("_migration_id" :> GenerateMigrationId(datum["name"]))
       @@ ("_relationships" :> relationships)
       @@ datum

RECURSIVE ExpandFrom(_, _, _)
\* expand_relationship(entity_data) from the i-th record on: each record is
\* updated in place, so a later lookup copies the updated record
ExpandFrom(graph, collection, i) ==
    IF i > Len(graph[collection]) THEN graph
    ELSE ExpandFrom([graph EXCEPT ![collection][i] = ExpandDatum(graph, @)],
                    collection, i + 1)

RECURSIVE ExpandCollectionsFrom(_, _)
\* the loop over data.items()
ExpandCollectionsFrom(graph, k) ==
    IF k > Len(ExpandedCollections) THEN graph
    ELSE ExpandCollectionsFrom(ExpandFrom(graph, ExpandedCollections[k], 1), k + 1)

\* _expand_relationships(data)
ExpandRelationshipsData(graph) == ExpandCollectionsFrom(graph, 1)

\* ------------------------------------------------------------------------
\* The mapping specification: one call of _map_data, and _expand_relationships
\* applied once more to the graph it returned
\* ------------------------------------------------------------------------

EmptyGraph ==
    [spaces |-> << >>, contexts |-> << >>, context_variables |-> << >>,
     stacks |-> << >>, modules |-> << >>, stack_variables |-> << >>]

InitMap ==
    /\ fn = "map"
    /\ docker_available = FALSE
    /\ podman_available = FALSE
    /\ confirm = FALSE
    /\ sensitive = [v \in Vars |-> FALSE]
    /\ hasConfig = [w \in Workspaces |-> TRUE]
    /\ pc = "idle"
    /\ SagaStart
    /\ ApiIdle
    /\ WsxIdle
    /\ PrepIdle
    /\ ImpIdle
    /\ \E scn \in Scenarios :
          /\ src_data = SourceData(scn)
          /\ config = [auto_fix_variable_names |-> scn.auto_fix_variable_names,
                       experimental_support_variable_sets |->
                          scn.experimental_support_variable_sets]
    /\ mapPc = "spaces"
    /\ map_data = EmptyGraph
    /\ is_gitlab = FALSE
    /\ is_ado = FALSE
    /\ mapError = "none"
    /\ expand_input = EmptyGraph

\* "spaces": self._map_spaces_data(src_data)
MapSpaces ==
    /\ mapPc = "spaces"
    /\ map_data' = [map_data EXCEPT !.spaces = MapSpacesData(src_data)]
    /\ mapPc' = "stacks"
    /\ UNCHANGED <<sagaVars, apiVars, auxVars, src_data, config, is_gitlab, is_ado, mapError,
                   expand_input>>

\* "stacks": self._map_stacks_data(src_data)
MapStacks ==
    /\ mapPc = "stacks"
    /\ LET result == MapStacksData(src_data, config)
       IN /\ is_gitlab' = result.gitlab
          /\ is_ado' = result.ado
          /\ IF result.error # "none"
             THEN /\ mapError' = result.error
                  /\ mapPc' = "raised"
                  /\ UNCHANGED map_data
             ELSE /\ map_data' = [map_data EXCEPT !.stacks = result.stacks]
                  /\ mapPc' = "modules"
                  /\ UNCHANGED mapError
    /\ UNCHANGED <<sagaVars, apiVars, auxVars, src_data, config, expand_input>>

\* "modules": self._map_modules_data(src_data)
MapModules ==
    /\ mapPc = "modules"
    /\ LET result == MapModulesData(src_data, is_gitlab, is_ado)
       IN IF result.error # "none"
          THEN /\ mapError' = result.error
               /\ mapPc' = "raised"
               /\ UNCHANGED map_data
          ELSE /\ map_data' = [map_data EXCEPT !.modules = result.modules]
               /\ mapPc' = "stack_variables"
               /\ UNCHANGED mapError
    /\ UNCHANGED <<sagaVars, apiVars, auxVars, src_data, config, is_gitlab, is_ado,
                   expand_input>>

\* "stack_variables": self._map_stack_variables_data(src_data)
MapStackVariables ==
    /\ mapPc = "stack_variables"
    /\ map_data' = [map_data EXCEPT
                       !.stack_variables = MapStackVariablesData(src_data, config)]
    /\ mapPc' = "contexts"
    /\ UNCHANGED <<sagaVars, apiVars, auxVars, src_data, config, is_gitlab, is_ado, mapError,
                   expand_input>>

\* if self.experimental_support_variable_sets: contexts and context variables
MapContexts ==
    /\ mapPc = "contexts"
    /\ IF config.experimental_support_variable_sets
       THEN map_data' = [map_data EXCEPT
                            !.contexts = MapContextsData(src_data),
                            !.context_variables =
                                MapContextVariablesData(src_data, config)]
       ELSE UNCHANGED map_data
    /\ mapPc' = "mark"
    /\ UNCHANGED <<sagaVars, apiVars, auxVars, src_data, config, is_gitlab, is_ado, mapError,
                   expand_input>>

\* data = self._mark_spaces_for_terraform_custom_workflow(data)
MarkSpacesForTerraformCustomWorkflow ==
    /\ mapPc = "mark"
    /\ map_data' = MarkSpaces(map_data)
    /\ mapPc' = "expand"
    /\ UNCHANGED <<sagaVars, apiVars, auxVars, src_data, config, is_gitlab, is_ado, mapError,
                   expand_input>>

\* data = self._expand_relationships(data), on the graph _map_data built and
\* on the graph a first application returned
ExpandRelationships ==
    /\ mapPc \in {"expand", "expanded"}
    /\ expand_input' = map_data
    /\ map_data' = ExpandRelationshipsData(map_data)
    /\ mapPc' = IF mapPc = "expand" THEN "expanded" ELSE "expanded_twice"
    /\ UNCHANGED <<sagaVars, apiVars, auxVars, src_data, config, is_gitlab, is_ado, mapError>>

NextMap ==
    \/ MapSpaces
    \/ MapStacks
    \/ MapModules
    \/ MapStackVariables
    \/ MapContexts
    \/ MarkSpacesForTerraformCustomWorkflow
    \/ ExpandRelationships

SpecMap == InitMap /\ [][NextMap]_vars

\* ------------------------------------------------------------------------
\* _extract_workspaces_data
\* ------------------------------------------------------------------------

\* the workspaces the API can list for the organization
WorkspaceItems ==
    {Item("a", <<"s", "m", "k">>), Item("b", <<"o", "p", "s">>), Item("c", <<"s", "x">>)}

\* attributes.tag-names the API holds for each of them
TagNames == [a |-> <<"t">>, b |-> << >>, c |-> <<"u", "v">>]

\* what the list endpoint answers: distinct workspaces, in the API's order
WorkspaceListings ==
    {<< >>}
    \cup {<<i>> : i \in WorkspaceItems}
    \cup {<<q[1], q[2]>> : q \in {r \in WorkspaceItems \X WorkspaceItems : r[1] # r[2]}}
    \cup {<<q[1], q[2], q[3]>> :
             q \in {r \in WorkspaceItems \X WorkspaceItems \X WorkspaceItems :
                       r[1] # r[2] /\ r[1] # r[3] /\ r[2] # r[3]}}

\* include.workspace_list: not set, a file that cannot be opened, or the
\* lines of the file
NoListFile == [kind |-> "none", lines |-> << >>]

UnreadableListFile == [kind |-> "unreadable", lines |-> << >>]

ListFile(lines) == [kind |-> "file", lines |-> lines]

\* include.workspaces: not set, a pattern (the prefix it requires, as for
\* include_pattern) or a list of names
NoWorkspaces == [kind |-> "none", prefix |-> << >>, names |-> << >>]

WorkspacesPattern(prefix) == [kind |-> "str", prefix |-> prefix, names |-> << >>]

WorkspacesList(names) == [kind |-> "list", prefix |-> << >>, names |-> names]

WorkspaceConfigs ==
    [workspace_list :
        {NoListFile, UnreadableListFile, ListFile(<< >>),
         ListFile(<< <<"s", "m", "k">>, << >>, <<" ", "o", "p", "s", " ">>, <<" ">> >>),
         ListFile(<< <<"s", "x">>, <<"z">> >>)},
     workspaces :
        {NoWorkspaces, WorkspacesPattern(<<"s">>), WorkspacesPattern(<<"o">>),
         WorkspacesList(<< <<"s", "m", "k">> >>), WorkspacesList(<< >>)}]

RECURSIVE LStrip(_)
\* the line without its leading blanks
LStrip(line) ==
    IF line # << >> /\ Head(line) = " " THEN LStrip(Tail(line)) ELSE line

RECURSIVE RStrip(_)
\* the line without its trailing blanks
RStrip(line) ==
    IF line # << >> /\ line[Len(line)] = " "
    THEN RStrip(SubSeq(line, 1, Len(line) - 1)) ELSE line

\* line.strip()
Strip(line) == RStrip(LStrip(line))

\* [line.strip() for line in lines if line.strip()]
StripLines(lines) ==
    LET kept == SelectSeq(lines, LAMBDA line : Strip(line) # << >>)
    IN [i \in DOMAIN kept |-> Strip(kept[i])]

\* the choice of filter_list, workspace_filter and include_pattern (".*"
\* requires no prefix), or the click.Abort raised for a file that cannot be
\* read
SelectFilter(cfg) ==
    LET selection(filter_list, workspace_filter, pattern) ==
            [error |-> "none", filter_list |-> filter_list,
             workspace_filter |-> workspace_filter, include_pattern |-> pattern]
    IN IF cfg.workspace_list.kind # "none"
       THEN IF cfg.workspace_list.kind = "unreadable"
            THEN [error |-> "Abort", filter_list |-> TRUE, workspace_filter |-> << >>,
                  include_pattern |-> NoPattern]
            ELSE selection(TRUE, StripLines(cfg.workspace_list.lines), Pattern(<< >>))
       ELSE IF cfg.workspaces.kind = "str"
       THEN selection(FALSE, << >>, Pattern(cfg.workspaces.prefix))
       ELSE IF cfg.workspaces.kind = "list"
       THEN selection(TRUE, cfg.workspaces.names, Pattern(<< >>))
       ELSE selection(FALSE, << >>, Pattern(<< >>))

\* the properties of the list call that the model keeps
WorkspaceProperties == Properties(<<"id", "attributes.name">>)

\* the allow-list is not applied
KeepListedAll(data, selection) == data

\* if filter_list: the workspaces whose attributes.name is in workspace_filter
KeepListed(data, selection) ==
    IF selection.filter_list
    THEN SelectSeq(data, LAMBDA workspace :
                            workspace["attributes.name"] \in Range(selection.workspace_filter))
    ELSE data

\* what the endpoint of one workspace answers
DetailResponses(item) ==
    {[status |-> HTTP_OK, data |-> ObjectData(item), next |-> FALSE],
     [status |-> HTTP_NOT_FOUND, data |-> NullData, next |-> FALSE],
     [status |-> HTTP_SERVER_ERROR, data |-> NullData, next |-> FALSE]}

InitWsx ==
    /\ fn = "wsx"
    /\ docker_available = FALSE
    /\ podman_available = FALSE
    /\ confirm = FALSE
    /\ sensitive = [v \in Vars |-> FALSE]
    /\ hasConfig = [w \in Workspaces |-> TRUE]
    /\ pc = "idle"
    /\ SagaStart
    /\ ApiIdle
    /\ MapIdle
    /\ PrepIdle
    /\ ImpIdle
    /\ wsxPc = "select"
    /\ ws_config \in WorkspaceConfigs
    /\ ws_api \in WorkspaceListings
    /\ ws_filter = << >>
    /\ ws_data = << >>
    /\ ws_index = 0
    /\ wsxError = "none"

\* the filter is chosen from the configuration
WsxSelect ==
    /\ wsxPc = "select"
    /\ LET selection == SelectFilter(ws_config)
       IN /\ ws_filter' = selection
          /\ wsxError' = selection.error
          /\ wsxPc' = IF selection.error = "none" THEN "list" ELSE "raised"
    /\ UNCHANGED <<sagaVars, apiVars, mapVars, prepVars, impVars, ws_config, ws_api,
                   ws_data, ws_index>>

\* data = self._extract_data_from_api(include_pattern, path, properties),
\* then the allow-list
WsxList ==
    /\ wsxPc = "list"
    /\ ws_data' = KeepListed(FilterAndProject(ws_api, ws_filter.include_pattern,
                                              WorkspaceProperties),
                             ws_filter)
    /\ ws_index' = 1
    /\ wsxPc' = "detail"
    /\ UNCHANGED <<sagaVars, apiVars, mapVars, prepVars, impVars, ws_config, ws_api,
                   ws_filter, wsxError>>

\* one iteration of `for i in data`: the tag names of the workspace are
\* fetched from its own endpoint and stored in the record
WsxDetail ==
    /\ wsxPc = "detail"
    /\ ws_index <= Len(ws_data)
    /\ LET i == ws_data[ws_index]
       IN IF /\ ws_filter.filter_list
             /\ i["attributes.name"] \notin Range(ws_filter.workspace_filter)
          THEN /\ ws_index' = ws_index + 1
               /\ UNCHANGED <<ws_data, wsxPc, wsxError>>
          ELSE \E response \in DetailResponses(Item(i["id"], i["attributes.name"])) :
                  LET payload == CallApi("GET", response)
                      raw == PageItems(payload.data)
                      additional_data ==
                          SelectSeq(raw, LAMBDA item :
                                            ~Skipped(ws_filter.include_pattern, item))
                  IN IF payload.error # "none"
                     THEN /\ wsxError' = payload.error
                          /\ wsxPc' = "raised"
                          /\ UNCHANGED <<ws_data, ws_index>>
                     ELSE IF additional_data = << >>
                     THEN /\ wsxError' = "IndexError"
                          /\ wsxPc' = "raised"
                          /\ UNCHANGED <<ws_data, ws_index>>
                     ELSE /\ ws_data' = [ws_data EXCEPT ![ws_index] =
                                            ("attributes.tag-names"
                                                :> TagNames[additional_data[1].id]) @@ @]
                          /\ ws_index' = ws_index + 1
                          /\ UNCHANGED <<wsxPc, wsxError>>
    /\ UNCHANGED <<sagaVars, apiVars, mapVars, prepVars, impVars, ws_config, ws_api,
                   ws_filter>>

\* return data
WsxReturn ==
    /\ wsxPc = "detail"
    /\ ws_index > Len(ws_data)
    /\ wsxPc' = "done"
    /\ UNCHANGED <<sagaVars, apiVars, mapVars, prepVars, impVars, ws_config, ws_api,
                   ws_filter, ws_data, ws_index, wsxError>>

NextWsx == WsxSelect \/ WsxList \/ WsxDetail \/ WsxReturn

SpecWsx == InitWsx /\ [][NextWsx]_vars

\* ------------------------------------------------------------------------
\* update_spacelift_config (prep-modules)
\* ------------------------------------------------------------------------

\* latest_tag_data: the tags of the module, the latest first (empty: none)
TagData == {<< >>, <<"v1">>, <<"v2", "v1">>, <<"v3", "v2">>}

\* .spacelift/config.yml: missing, or a file that yaml can load or not, with
\* its keys ("none": the key is not in the file)
NoConfigFile ==
    [exists |-> FALSE, loads |-> FALSE, version |-> "none", module_version |-> "none"]

ConfigFile(loads, version, module_version) ==
    [exists |-> TRUE, loads |-> loads, version |-> version,
     module_version |-> module_version]

ConfigFiles ==
    {NoConfigFile, ConfigFile(FALSE, "none", "none")}
    \cup {ConfigFile(TRUE, "1", v) : v \in {"none", "v1", "v2", "v3"}}

\* the other paths the function reads: the .spacelift directory, the two
\* workflow files of the repository and the template of the kit
OtherPaths == {".spacelift", "release-please.yaml", "release-please-tf.yaml", "template"}

\* the mapping the function builds before it sets module_version
LoadedConfig(file) ==
    IF ~file.exists THEN [version |-> "1", module_version |-> "none"]
    ELSE IF file.loads THEN [version |-> file.version, module_version |-> file.module_version]
    ELSE [version |-> "none", module_version |-> "none"]

\* if not config_file.exists() or config.get('module_version') != latest_tag_version
ShouldWrite(file, cfg, latest_tag_version) ==
    ~file.exists \/ cfg.module_version # latest_tag_version

InitPrep ==
    /\ fn = "prep"
    /\ docker_available = FALSE
    /\ podman_available = FALSE
    /\ confirm = FALSE
    /\ sensitive = [v \in Vars |-> FALSE]
    /\ hasConfig = [w \in Workspaces |-> TRUE]
    /\ pc = "idle"
    /\ SagaStart
    /\ ApiIdle
    /\ MapIdle
    /\ WsxIdle
    /\ ImpIdle
    /\ prepPc = "call"
    /\ latest_tag_data \in TagData
    /\ config_file \in ConfigFiles
    /\ repo_files \in {files \in SUBSET OtherPaths :
                          config_file.exists => ".spacelift" \in files}
    /\ writable \in BOOLEAN
    /\ changes_made = FALSE

\* if not latest_tag_data: return False
UpdateSkipped ==
    /\ prepPc = "call"
    /\ latest_tag_data = << >>
    /\ prepPc' = "done"
    /\ UNCHANGED <<sagaVars, apiVars, mapVars, wsxVars, impVars, latest_tag_data,
                   config_file, repo_files, writable, changes_made>>

\* update_spacelift_config(module_name, latest_tag_data, repo_dir) with tags:
\* the config is loaded or created, module_version is set, the file is
\* written if the test says so (an error of the write is logged), and the
\* release-please workflow files are replaced
UpdateSpaceliftConfig ==
    /\ prepPc = "call"
    /\ latest_tag_data # << >>
    /\ LET latest_tag_version == Head(latest_tag_data)
           cfg == [LoadedConfig(config_file) EXCEPT !.module_version = latest_tag_version]
           written == ShouldWrite(config_file, cfg, latest_tag_version) /\ writable
           removed == "release-please.yaml" \in repo_files
           copied == "template" \in repo_files
       IN /\ config_file' = IF written
                            THEN ConfigFile(TRUE, cfg.version, cfg.module_version)
                            ELSE config_file
          /\ repo_files' = ((repo_files \cup {".spacelift"}) \ {"release-please.yaml"})
                              \cup (IF copied THEN {"release-please-tf.yaml"} ELSE {})
          /\ changes_made' = (written \/ removed \/ copied)
    /\ prepPc' = "done"
    /\ UNCHANGED <<sagaVars, apiVars, mapVars, wsxVars, impVars, latest_tag_data, writable>>

NextPrep == UpdateSkipped \/ UpdateSpaceliftConfig

SpecPrep == InitPrep /\ [][NextPrep]_vars

\* ------------------------------------------------------------------------
\* import_state_files_to_spacelift
\* ------------------------------------------------------------------------

\* How many stacks the normalized data may hold.
MaxStacks == 3

\* the space _get_stack reports for a stack ("missing": Spacelift has no
\* such stack)
StackSpaces == {"root", "dev", "missing"}

\* the call of the Spacelift API a step makes succeeds or raises
Outcomes == {"ok", "error"}

InitImp ==
    /\ fn = "import"
    /\ docker_available = FALSE
    /\ podman_available = FALSE
    /\ confirm = FALSE
    /\ sensitive = [v \in Vars |-> FALSE]
    /\ hasConfig = [w \in Workspaces |-> TRUE]
    /\ pc = "idle"
    /\ SagaStart
    /\ ApiIdle
    /\ MapIdle
    /\ WsxIdle
    /\ PrepIdle
    /\ impPc = "stacks"
    /\ \E n \in 0..MaxStacks : stack_space \in [1..n -> StackSpaces]
    /\ space_ids = {}
    /\ remaining = {}
    /\ live_contexts = {}
    /\ contextsCreated = {}
    /\ tasksTriggered = 0
    /\ impError = "none"

\* the first loop: the spaces of the stacks are collected; a stack that
\* Spacelift does not know ends the command
ImpGetStacks ==
    /\ impPc = "stacks"
    /\ \E outcome_ \in Outcomes :
          IF outcome_ = "error" \/ "missing" \in Range(stack_space)
          THEN /\ Len(stack_space) > 0
               /\ impError' = "stacks"
               /\ impPc' = "raised"
               /\ UNCHANGED <<space_ids, remaining>>
          ELSE /\ space_ids' = Range(stack_space)
               /\ remaining' = Range(stack_space)
               /\ impPc' = IF Len(stack_space) = 0 THEN "done" ELSE "create"
               /\ UNCHANGED impError
    /\ UNCHANGED <<sagaVars, apiVars, mapVars, wsxVars, prepVars, stack_space,
                   live_contexts, contextsCreated, tasksTriggered>>

\* one iteration of `for space_id in space_ids: _create_context(...)` (a set
\* is iterated in no particular order)
ImpCreateContext ==
    /\ impPc = "create"
    /\ \E space_id \in remaining, outcome_ \in Outcomes :
          IF outcome_ = "error"
          THEN /\ impError' = "create"
               /\ impPc' = "raised"
               /\ UNCHANGED <<remaining, live_contexts, contextsCreated>>
          ELSE /\ live_contexts' = live_contexts \cup {space_id}
               /\ contextsCreated' = contextsCreated \cup {space_id}
               /\ remaining' = remaining \ {space_id}
               /\ impPc' = IF remaining' = {} THEN "tasks" ELSE "create"
               /\ UNCHANGED impError
    /\ UNCHANGED <<sagaVars, apiVars, mapVars, wsxVars, prepVars, stack_space, space_ids,
                   tasksTriggered>>

\* one iteration of `for stack in data.get("stacks"): _trigger_task(...)`
ImpTriggerTask ==
    /\ impPc = "tasks"
    /\ \E outcome_ \in Outcomes :
          IF outcome_ = "error"
          THEN /\ impError' = "task"
               /\ impPc' = "raised"
               /\ UNCHANGED <<remaining, tasksTriggered>>
          ELSE /\ tasksTriggered' = tasksTriggered + 1
               /\ IF tasksTriggered' = Len(stack_space)
                  THEN /\ impPc' = "delete"
                       /\ remaining' = space_ids
                  ELSE /\ impPc' = "tasks"
                       /\ UNCHANGED remaining
               /\ UNCHANGED impError
    /\ UNCHANGED <<sagaVars, apiVars, mapVars, wsxVars, prepVars, stack_space, space_ids,
                   live_contexts, contextsCreated>>

\* one iteration of `for space_id in space_ids: _delete_context(...)`: the
\* autoattach label is removed, then the context is deleted
ImpDeleteContext ==
    /\ impPc = "delete"
    /\ \E space_id \in remaining, outcome_ \in Outcomes :
          IF outcome_ = "error"
          THEN /\ impError' = "delete"
               /\ impPc' = "raised"
               /\ UNCHANGED <<remaining, live_contexts>>
          ELSE /\ live_contexts' = live_contexts \ {space_id}
               /\ remaining' = remaining \ {space_id}
               /\ impPc' = IF remaining' = {} THEN "done" ELSE "delete"
               /\ UNCHANGED impError
    /\ UNCHANGED <<sagaVars, apiVars, mapVars, wsxVars, prepVars, stack_space, space_ids,
                   contextsCreated, tasksTriggered>>

NextImp == ImpGetStacks \/ ImpCreateContext \/ ImpTriggerTask \/ ImpDeleteContext

SpecImp == InitImp /\ [][NextImp]_vars

\* ------------------------------------------------------------------------
\* Properties of the enrichment (checked under Spec)
\* ------------------------------------------------------------------------

\* the pool ids of the ephemeral "SMK" agent pools
EphemeralPools == Range([i \in DOMAIN OrgIds |-> PoolId[OrgIds[i]]])

\* the workspace points at an ephemeral agent pool
Unrestored(w) == wsRemote[w].pool \in EphemeralPools

\* the finally block of the current organization has been left
LeftFinally == pc \in {"fin_exit", "ws_org", "done"}

TeardownSteps == {"fin_stop", "fin_pool", "fin_delete_ws"}

CleanupSteps == {"fin_restore", "fin_reset"} \cup TeardownSteps

\* C1: once the workspace variant has left an organization's try/finally,
\* every workspace it repointed holds the execution-mode, setting-overwrites
\* and agent-pool relationship that the backup taken before the repoint
\* captured, whichever step of the saga raised (the restore PATCH of the
\* cleanup block, which is only issued after another step raised, excepted).
C1_WorkspaceRestored ==
    (fn = "ws" /\ LeftFinally /\ "fin_restore" \notin failedSteps)
        => \A w \in repointed :
              /\ backupTaken[w] # NoBackup
              /\ wsRemote[w] = backupTaken[w]

C1_Witness ==
    /\ fn = "ws"
    /\ pc = "fin_exit"
    /\ tryExc.at \in {"trigger_run", "get_plan", "ws_scan", "ws_restore"}
    /\ current_workspace_id = "w2"
    /\ repointed = {"w1", "w2"}
    /\ wsRemote = OriginalSettings

\* C2: when the cleanup block of an organization exits, the agent container
\* of the organization has been stopped and its agent pool deleted, whichever
\* step raised before the stop and the delete themselves.
C2_AgentTornDown ==
    (fn = "ws" /\ pc = "fin_exit" /\ failedSteps \cap TeardownSteps = {})
        => /\ PoolId[organization_id] \notin pools
           /\ containers[organization_id] \notin {"starting", "running"}

\* C3: when the variable set variant returns or raises, no ephemeral agent
\* pool, agent container or disposable workspace of any organization is left.
C3_VariableSetTeardown ==
    (fn = "vs" /\ pc = "done" /\ failedSteps \cap TeardownSteps = {})
        => /\ pools = {}
           /\ smkWorkspaces = {}
           /\ \A o \in Orgs : containers[o] \notin {"starting", "running"}

\* C4 (as claimed): exactly one restore PATCH is issued after every repoint.
C4_ExactlyOneRestore ==
    (fn = "ws" /\ LeftFinally) => \A w \in repointed : restoreIssued[w] = 1

\* C4 (amended): after every repoint at least one restore PATCH is issued;
\* exactly one unless the restore of the loop body itself raises, in which
\* case the cleanup block issues one more; at most one restore is applied,
\* and one is applied unless the restore of the cleanup block raises.
C4_RestoreIssued ==
    (fn = "ws" /\ LeftFinally)
        => \A w \in repointed :
              /\ restoreIssued[w] \in {1, 2}
              /\ restoreIssued[w] = 2
                    <=> (w = current_workspace_id /\ "ws_restore" \in failedSteps)
              /\ restoreApplied[w] <= 1
              /\ restoreApplied[w] = 0 => "fin_restore" \in failedSteps

C4_Witness ==
    /\ fn = "ws"
    /\ pc = "fin_exit"
    /\ repointed = {"w1", "w2"}
    /\ restoreIssued["w1"] = 1
    /\ restoreIssued["w2"] = 2
    /\ restoreApplied["w2"] = 1

\* C5: a TerraformExporterPlanError or an AgentStartError raised for one
\* organization does not leave the function: the remaining organizations
\* are processed and the data is returned.
C5_PipelineContinues ==
    (/\ fn = "ws"
     /\ pc = "done"
     /\ tryExc.type \in {"TerraformExporterPlanError", "AgentStartError"}
     /\ failedSteps \cap CleanupSteps = {})
        => /\ outcome = "returned"
           /\ Range(Organizations(sensitive)) \ {organization_id} \subseteq orgsDone

\* C6: when a step of the saga raised E and a cleanup action raises as well,
\* the function still raises E and every cleanup action of the block has run.
C6_CleanupNeverMasks ==
    (pc = "done" /\ tryExc # NoExc /\ failedSteps \cap CleanupSteps # {})
        => /\ outcome = "raised"
           /\ exc = tryExc
           /\ IF fn = "ws"
              THEN {"fin_restore", "fin_stop", "fin_pool"} \subseteq cleanupRan
              ELSE {"fin_delete_ws", "fin_reset", "fin_stop", "fin_pool"}
                       \subseteq cleanupRan

\* C7: at most one workspace points at the ephemeral pool at any time, and
\* no backup read or repoint PATCH is issued while any workspace does.
C7_OneMutationAtATime ==
    fn = "ws"
        => /\ Cardinality({w \in Workspaces : Unrestored(w)}) <= 1
           /\ pc \in {"ws_backup", "ws_repoint"}
                 => \A w \in Workspaces : ~Unrestored(w)

C7_Witness ==
    /\ fn = "ws"
    /\ pc = "ws_repoint"
    /\ current_workspace_id = "w2"
    /\ "w1" \in repointed
    /\ restoreApplied["w1"] = 1

\* C8: without a container runtime, or when the operator declines, either
\* function returns the data unchanged, having issued no POST, PATCH or
\* DELETE, started no container and raised nothing.
C8_SkipIsInert ==
    (/\ fn \in {"ws", "vs"}
     /\ pc = "done"
     /\ (~docker_available /\ ~podman_available) \/ ~confirm)
        => /\ outcome = "returned"
           /\ exc = NoExc
           /\ mutatingCalls = {}
           /\ containersStarted = {}
           /\ value = [v \in Vars |-> NoValue]
           /\ vsValue = [x \in VsVars |-> NoValue]
           /\ wsRemote = OriginalSettings
           /\ vsRemote = OriginalAttachment
           /\ pools = {}
           /\ smkWorkspaces = {}

C8_Witness ==
    /\ fn = "vs"
    /\ pc = "done"
    /\ ~docker_available
    /\ ~podman_available
    /\ confirm
    /\ outcome = "returned"

\* ------------------------------------------------------------------------
\* Properties of the API client (checked under SpecApi)
\* ------------------------------------------------------------------------

\* the items a response carries, read off the response itself
ClaimItems(response) ==
    IF response.status # HTTP_OK THEN << >>
    ELSE IF response.data.kind = "list" THEN response.data.items
    ELSE IF response.data.kind = "object" /\ response.data.items # << >>
    THEN <<response.data.items[1]>>
    ELSE << >>

RECURSIVE AllItems(_)
\* the items of all responses, in page order
AllItems(rs) ==
    IF rs = << >> THEN << >> ELSE ClaimItems(Head(rs)) \o AllItems(Tail(rs))

\* the items whose name is missing or begins as the include pattern asks
KeptItems(rs) ==
    SelectSeq(AllItems(rs),
              LAMBDA it : \/ it.name = << >>
                          \/ ~include_pattern.given
                          \/ /\ Len(it.name) >= Len(include_pattern.prefix)
                             /\ \A k \in 1..Len(include_pattern.prefix) :
                                   it.name[k] = include_pattern.prefix[k])

\* C9: a 404 answer raises nothing, for every method and path: _call_api
\* returns the empty payload, and _extract_data_from_api takes it as an empty
\* last page, so that a call whose first answer is 404 returns the empty list.
C9_NotFoundIsEmptyPage ==
    /\ \A m \in Methods, r \in Responses :
          r.status = HTTP_NOT_FOUND
              => CallApi(m, r) = [error |-> "none", data |-> EmptyObject, next |-> FALSE]
    /\ \A i \in DOMAIN responses :
          responses[i].status = HTTP_NOT_FOUND
              => /\ apiError = "none"
                 /\ i = Len(responses)
                 /\ apiPc \in {"filter", "done"}
                 /\ Len(raw_data) = Len(AllItems(SubSeq(responses, 1, i - 1)))
                 /\ (i = 1 /\ apiPc = "done") => apiResult = << >>

C9_Witness ==
    /\ fn = "api"
    /\ apiPc = "done"
    /\ method = "DELETE"
    /\ Len(responses) = 1
    /\ responses[1].status = HTTP_NOT_FOUND
    /\ properties.paths = <<"id">>
    /\ apiResult = << >>
    /\ apiError = "none"

\* C10 (as claimed), for a call that passes a property list: the items of all
\* pages are returned, one entry for an object and one for each item of a
\* collection, in page order.
C10_AllItemsReturned ==
    (fn = "api" /\ apiPc = "done" /\ apiError = "none" /\ HasProperties(properties))
        => /\ Len(apiResult) = Len(AllItems(responses))
           /\ \A k \in DOMAIN apiResult : apiResult[k]["id"] = AllItems(responses)[k].id

\* C10 (amended): links.next is followed until an answer has none; given a
\* non-empty property list the result is, in page order, one record per item
\* whose name is missing or matches the include pattern, reduced to the
\* properties asked for, a non-empty object counting as one item and a
\* collection as all of its items; without a property list it is empty.
C10_PagesConcatenated ==
    /\ fn = "api"
          => \A i \in DOMAIN responses :
                i < Len(responses)
                    => responses[i].status = HTTP_OK /\ responses[i].next
    /\ (fn = "api" /\ apiPc = "done" /\ apiError = "none")
          => /\ ~(responses[Len(responses)].status = HTTP_OK
                  /\ responses[Len(responses)].next)
             /\ LET kept == KeptItems(responses)
                IN IF ~properties.given \/ Len(properties.paths) = 0
                   THEN apiResult = << >>
                   ELSE /\ Len(apiResult) = Len(kept)
                        /\ \A k \in DOMAIN kept :
                              /\ DOMAIN apiResult[k] = Range(properties.paths)
                              /\ apiResult[k]["id"] = kept[k].id
                              /\ "attributes.name" \in Range(properties.paths)
                                    => apiResult[k]["attributes.name"] = kept[k].name

C10_Witness ==
    /\ fn = "api"
    /\ apiPc = "done"
    /\ apiError = "none"
    /\ Len(responses) = 2
    /\ responses[1].data.kind = "list"
    /\ responses[2].data.kind = "object"
    /\ ~include_pattern.given
    /\ properties.paths = <<"id", "attributes.name">>
    /\ Len(apiResult) = 3

\* ------------------------------------------------------------------------
\* Properties of the polls and of the variable set variant (checked under Spec)
\* ------------------------------------------------------------------------

\* C11: _start_agent_container reads the container list at most max_attempts
\* (10) times: the number of docker.ps() polls made by one call never
\* exceeds 10, and AgentStartError is raised only after polls that did not see
\* the container running.
C11_AtMostTenPolls ==
    /\ attempts <= max_attempts
    /\ exc.type = "AgentStartError" => ~found

TerminalStatuses == {"errored", "finished", "canceled", "unreachable"}

\* C12: while _get_plan is still polling no terminal status has been read;
\* when it has returned, the last status read is terminal, the plan read is
\* returned for errored and finished, and the empty result for canceled and
\* unreachable.
C12_PlanPolling ==
    /\ pc = "get_plan" => plan_response.status \notin TerminalStatuses
    /\ pc \in {"ws_scan", "vs_scan"}
          => /\ plan_response.status \in TerminalStatuses
             /\ plan_response.status \in {"errored", "finished"}
                   => plan_data = plan_response
             /\ plan_response.status \in {"canceled", "unreachable"}
                   => plan_data = EmptyPlan

C12_Witness ==
    /\ pc = "ws_scan"
    /\ planPolls = MaxPlanPolls
    /\ plan_response = PlanResponse("unreachable", TRUE)
    /\ plan_data = EmptyPlan

\* C13: when the variable set variant returns or raises, every variable set
\* it attached to the disposable workspace has its global flag, priority flag,
\* workspace attachments and project attachments back as they were backed up,
\* whichever later step raised (the reset PATCH of the cleanup block itself
\* excepted).
C13_VariableSetRestored ==
    (fn = "vs" /\ pc = "done" /\ "fin_reset" \notin failedSteps)
        => vsRemote = OriginalAttachment

\* C28: _start_agent_container raises AgentStartError only if no poll saw
\* the named container running; a poll that sees it running makes the
\* function return the container.
C28_RaisesOnlyIfNeverSeen ==
    (exc.type = "AgentStartError" /\ exc.at = "poll") => ~found

\* the values a log scan can give a variable with the key: the remainder of
\* a line that starts with "<key>="
Recovered(key) ==
    {RemovePrefix(line, Append(key, "=")) :
        line \in {l \in UNION {Range(log) : log \in Logs} :
                     StartsWith(l, Append(key, "="))}}

\* a step overwrites the value of a workspace variable only if the variable
\* is sensitive and of the workspace whose plan log is scanned, and only
\* with the remainder of a line that starts with "<key>="
WorkspaceVariableFrame ==
    \A v \in Vars :
        value'[v] # value[v]
           => /\ pc = "ws_scan"
              /\ sensitive[v]
              /\ VarWs[v] = current_workspace_id
              /\ value'[v] \in Recovered(VarKey[v])

\* the same for the variables of a variable set
VariableSetVariableFrame ==
    \A x \in VsVars :
        vsValue'[x] # vsValue[x]
           => /\ pc = "vs_scan"
              /\ VsVarSensitive[x]
              /\ VsVarSet[x] = var_set_id
              /\ vsValue'[x] \in Recovered(VsVarKey[x])

\* C23: during the enrichment the value of a variable record is overwritten
\* only if the variable is sensitive and belongs to the workspace or variable
\* set whose plan log is being scanned, and only with the remainder of a log
\* line that starts with "<key>="; every other value is left unchanged.
C23_OnlySensitiveOverwritten ==
    [][WorkspaceVariableFrame /\ VariableSetVariableFrame]_vars

\* ------------------------------------------------------------------------
\* Properties of the workspace extraction (checked under SpecWsx)
\* ------------------------------------------------------------------------

\* an allow-list is configured: a workspace_list file, or else a list-valued
\* include.workspaces
HasAllowList(cfg) ==
    \/ cfg.workspace_list.kind = "file"
    \/ cfg.workspace_list.kind = "none" /\ cfg.workspaces.kind = "list"

\* the names of the allow-list
AllowList(cfg) ==
    IF cfg.workspace_list.kind = "file"
    THEN {Strip(line) : line \in Range(cfg.workspace_list.lines)}
    ELSE Range(cfg.workspaces.names)

\* the workspaces of the listing the first filter selects, in the API's order
SelectedWorkspaces(cfg, listing) ==
    SelectSeq(listing,
              LAMBDA item :
                  IF HasAllowList(cfg) THEN item.name \in AllowList(cfg)
                  ELSE cfg.workspaces.kind = "str"
                          => StartsWith(item.name, cfg.workspaces.prefix))

\* C21: _extract_workspaces_data returns exactly the workspaces the first
\* filter selects, in the API's order: with an allow-list (the workspace_list
\* file, or a list-valued include.workspaces) those whose name is in the list
\* whatever the include pattern, and else those whose name matches the
\* include pattern; the detail fetch gives each its tag names and neither
\* removes nor adds a record.
C21_ExactlySelectedWorkspaces ==
    (fn = "wsx" /\ wsxPc = "done")
        => LET selected == SelectedWorkspaces(ws_config, ws_api)
           IN /\ Len(ws_data) = Len(selected)
              /\ \A k \in DOMAIN selected :
                    /\ ws_data[k]["id"] = selected[k].id
                    /\ ws_data[k]["attributes.name"] = selected[k].name
                    /\ ws_data[k]["attributes.tag-names"] = TagNames[selected[k].id]

C21_Witness ==
    /\ fn = "wsx"
    /\ wsxPc = "done"
    /\ ws_config.workspace_list.kind = "file"
    /\ ws_config.workspaces = WorkspacesPattern(<<"o">>)
    /\ Len(ws_api) = 3
    /\ Len(ws_data) = 2
    /\ ws_data[1]["attributes.name"] = <<"s", "m", "k">>
    /\ ws_data[1]["attributes.tag-names"] = <<"t">>

\* ------------------------------------------------------------------------
\* Properties of update_spacelift_config (checked under SpecPrep)
\* ------------------------------------------------------------------------

\* C22: after update_spacelift_config has been called with tags (and the
\* file can be written), .spacelift/config.yml exists and its module_version
\* is the latest tag, whether the file was missing or held another version.
C22_ConfigHasLatestVersion ==
    (fn = "prep" /\ prepPc = "done" /\ latest_tag_data # << >> /\ writable)
        => /\ config_file.exists
           /\ config_file.module_version = Head(latest_tag_data)

\* ------------------------------------------------------------------------
\* Properties of import_state_files_to_spacelift (checked under SpecImp)
\* ------------------------------------------------------------------------

\* C29: every "SMK Terraform Token" context is created before the first
\* state-import task is triggered, and when the command has ended, normally
\* or because creating a context or triggering a task raised, every context
\* it created has been deleted.
C29_TokenContextsDeleted ==
    fn = "import"
        => /\ tasksTriggered > 0 => contextsCreated = space_ids
           /\ (impPc \in {"done", "raised"} /\ impError # "delete")
                 => live_contexts = {}

\* ------------------------------------------------------------------------
\* Properties of the mapping (checked under SpecMap)
\* ------------------------------------------------------------------------

\* the relationship types of a record of a graph
RelationshipTypes(record) ==
    IF "_relationships" \in DOMAIN record THEN DOMAIN record["_relationships"] ELSE {}

\* the records of a graph that _expand_relationships processes
ProcessedRecords(graph) ==
    UNION {{<<ExpandedCollections[k], i>> : i \in DOMAIN graph[ExpandedCollections[k]]} :
              k \in DOMAIN ExpandedCollections}

\* the records of the collection a relationship type names whose _source_id
\* is the id
Referenced(graph, type_, id) ==
    LET collection == graph[IF type_ \in {"space", "stack"}
                            THEN IF type_ = "space" THEN "spaces" ELSE "stacks"
                            ELSE type_]
    IN {collection[j] : j \in {k \in DOMAIN collection :
                                  collection[k]["_source_id"] = id}}

\* C14: after _expand_relationships, every relationship reference of every
\* processed record is null when no record of the pluralized collection has
\* that _source_id, and else a copy, without its own _relationships, of a
\* record whose _source_id is the reference id; the record referenced keeps
\* its _relationships, and nothing is raised.
C14_ReferencesResolved ==
    (fn = "map" /\ mapPc = "expanded")
        => /\ mapError = "none"
           /\ \A p \in ProcessedRecords(expand_input) :
                 \A t \in RelationshipTypes(expand_input[p[1]][p[2]]) :
                    LET ref == expand_input[p[1]][p[2]]["_relationships"][t]
                        out == map_data[p[1]][p[2]]["_relationships"][t]
                        targets == Referenced(map_data, t, ref.id)
                    IN IF targets = {}
                       THEN out.kind = "null"
                       ELSE /\ out.kind = "entity"
                            /\ out.entity["_source_id"] = ref.id
                            /\ "_relationships" \notin DOMAIN out.entity
                            /\ \E target \in targets :
                                  /\ "_relationships" \in DOMAIN target
                                  /\ \A key \in DOMAIN target \ {"_relationships"} :
                                        /\ key \in DOMAIN out.entity
                                        /\ out.entity[key] = target[key]

C14_Witness ==
    /\ fn = "map"
    /\ mapPc = "expanded"
    /\ map_data.stacks[1]["_relationships"]["space"].kind = "null"
    /\ map_data.stacks[2]["_relationships"]["space"].kind = "entity"
    /\ map_data.stack_variables[1]["_relationships"]["stack"].kind = "entity"

\* C20: applying _expand_relationships to a graph it has already expanded
\* leaves the _relationships and the _migration_id of every record as they
\* were.
C20_ExpansionIdempotent ==
    (fn = "map" /\ mapPc = "expanded_twice")
        => \A p \in ProcessedRecords(expand_input) :
              /\ map_data[p[1]][p[2]]["_migration_id"]
                    = expand_input[p[1]][p[2]]["_migration_id"]
              /\ \A t \in RelationshipTypes(expand_input[p[1]][p[2]]) :
                    map_data[p[1]][p[2]]["_relationships"][t].kind
                       = expand_input[p[1]][p[2]]["_relationships"][t].kind

\* no two elements of the sequence are equal
PairwiseDistinct(seq) == \A i, j \in DOMAIN seq : i # j => seq[i] # seq[j]

\* the slugged names of a source collection (the name of a variable is its key)
SluggedNames(records) ==
    [i \in DOMAIN records |->
        slugify(IF "key" \in DOMAIN records[i] THEN records[i].key ELSE records[i].name)]

\* the names are pairwise distinct after slugging within each source collection
SourceNamesDistinct ==
    /\ PairwiseDistinct(SluggedNames(src_data.organizations))
    /\ PairwiseDistinct(SluggedNames(src_data.projects))
    /\ PairwiseDistinct(SluggedNames(src_data.workspaces))
    /\ PairwiseDistinct(SluggedNames(src_data.modules))
    /\ PairwiseDistinct(SluggedNames(src_data.workspace_variables))
    /\ PairwiseDistinct(SluggedNames(src_data.variable_sets))
    /\ PairwiseDistinct(SluggedNames(src_data.variable_set_variables))

MigrationIds(collection) == [i \in DOMAIN collection |-> collection[i]["_migration_id"]]

\* C15: in the graph _map_data returns, no two records of one collection have
\* the same _migration_id, provided the names within each source collection
\* are pairwise distinct after slugging.
C15_MigrationIdsUnique ==
    (fn = "map" /\ mapPc = "expanded" /\ SourceNamesDistinct)
        => \A c \in DOMAIN map_data : PairwiseDistinct(MigrationIds(map_data[c]))

\* the contexts have been mapped
ContextsMapped ==
    /\ fn = "map"
    /\ mapPc \in {"mark", "expand", "expanded"}
    /\ config.experimental_support_variable_sets

\* the context records made for a variable set: those with its id or with a
\* composite of a project id and its id as _source_id
ContextsOf(variable_set) ==
    SelectSeq(map_data.contexts,
              LAMBDA context :
                 \/ context["_source_id"] = variable_set.id
                 \/ \E project \in Range(variable_set.projects) :
                       context["_source_id"] = project \o <<"_">> \o variable_set.id)

\* there are exactly two context records for the variable set, one per
\* project, with the composite _source_id and the name and description of
\* the variable set
TwoContextCopies(variable_set) ==
    LET contexts == ContextsOf(variable_set)
    IN /\ Len(contexts) = 2
       /\ contexts[1]["_source_id"] # contexts[2]["_source_id"]
       /\ \A i \in 1..2 :
             /\ contexts[i]["_source_id"]
                   = variable_set.projects[i] \o <<"_">> \o variable_set.id
             /\ contexts[i]["name"] = variable_set.name
             /\ contexts[i]["description"] = variable_set.description

StacksMapped == fn = "map" /\ mapPc \in {"modules", "expanded"}

\* major.minor.patch comes after 1.5.7
AfterPinned(v) ==
    \/ v[1] > 1
    \/ v[1] = 1 /\ v[2] > 5
    \/ v[1] = 1 /\ v[2] = 5 /\ v[3] > 7

\* C17: the stack of every workspace has version 1.5.7 and TERRAFORM_FOSS
\* for terraform-version "latest", OPEN_TOFU and the version unchanged for a
\* version that starts with "~" or "^" or is greater than 1.5.7, and
\* TERRAFORM_FOSS and the version unchanged for every other version.
C17_WorkflowTool ==
    StacksMapped
        => \A i \in DOMAIN src_data.workspaces :
              LET version == src_data.workspaces[i].terraform_version
                  terraform == map_data.stacks[i]["terraform"]
              IN IF version.kind = "latest"
                 THEN /\ terraform.version = [kind |-> "exact", v |-> <<1, 5, 7>>,
                                              pre |-> FALSE]
                      /\ terraform.workflow_tool = "TERRAFORM_FOSS"
                 ELSE /\ terraform.version = version
                      /\ terraform.workflow_tool =
                            IF version.kind \in {"tilde", "caret"} \/ AfterPinned(version.v)
                            THEN "OPEN_TOFU" ELSE "TERRAFORM_FOSS"

C17_Witness ==
    /\ StacksMapped
    /\ src_data.workspaces[1].terraform_version
          = [kind |-> "exact", v |-> <<1, 5, 8>>, pre |-> FALSE]
    /\ map_data.stacks[1]["terraform"].workflow_tool = "OPEN_TOFU"
    /\ map_data.stacks[2]["terraform"].workflow_tool = "TERRAFORM_FOSS"

BadName == <<"b", "a", "d", "-", "n", "a", "m", "e">>

FixedName == <<"b", "a", "d", "_", "n", "a", "m", "e">>

\* the stack variables have been mapped
StackVariablesMapped == fn = "map" /\ mapPc \in {"contexts", "expanded"}

\* the variables of the source data named "bad-name", by position
BadNamed == {i \in DOMAIN src_data.workspace_variables :
                src_data.workspace_variables[i].key = BadName}

\* the stack of the workspace of the i-th variable
StackOfVariable(i) ==
    LET matching == {j \in DOMAIN map_data.stacks :
                        map_data.stacks[j]["_source_id"]
                           = src_data.workspace_variables[i].workspace}
    IN map_data.stacks[CHOOSE j \in matching : TRUE]

\* C18 (as claimed): for a workspace variable named "bad-name", with auto-fix
\* disabled the stack has has_variables_with_invalid_name = true and the
\* replacement_name is the original name; with auto-fix enabled the
\* replacement_name is "bad_name", the name is the original one and the
\* flag of the stack is false.
C18_InvalidNameFlag ==
    StackVariablesMapped
        => \A i \in BadNamed :
              LET variable == map_data.stack_variables[i]
                  stack == StackOfVariable(i)
              IN IF config.auto_fix_variable_names
                 THEN /\ variable["replacement_name"] = FixedName
                      /\ variable["name"] = BadName
                      /\ ~stack["has_variables_with_invalid_name"]
                 ELSE /\ variable["replacement_name"] = BadName
                      /\ stack["has_variables_with_invalid_name"]

\* C18 (amended): the same for a variable whose sensitive attribute is not
\* true; for a sensitive variable and auto-fix disabled it is
\* has_secret_variables_with_invalid_name that is set on the stack.
C18_InvalidNameFlagBySensitivity ==
    StackVariablesMapped
        => \A i \in BadNamed :
              LET variable == map_data.stack_variables[i]
                  stack == StackOfVariable(i)
                  secret == src_data.workspace_variables[i].sensitive = "true"
              IN IF config.auto_fix_variable_names
                 THEN /\ variable["replacement_name"] = FixedName
                      /\ variable["name"] = BadName
                      /\ ~stack["has_variables_with_invalid_name"]
                      /\ ~stack["has_secret_variables_with_invalid_name"]
                 ELSE /\ variable["replacement_name"] = BadName
                      /\ variable["name"] = BadName
                      /\ ~secret => stack["has_variables_with_invalid_name"]
                      /\ secret => stack["has_secret_variables_with_invalid_name"]

C18_Witness ==
    /\ StackVariablesMapped
    /\ mapPc = "expanded"
    /\ config.auto_fix_variable_names
    /\ src_data.workspace_variables[1].key = BadName
    /\ src_data.workspace_variables[1].sensitive = "false"
    /\ map_data.stack_variables[1]["replacement_name"] = FixedName

\* C19: the stack of every workspace has, for an identifier split on "/":
\* namespace = segment 0 and repository = segment 1 for the generic
\* providers; namespace = all segments but the last, joined by "/", and
\* repository = the last segment for GitLab; namespace = segment 1 and
\* repository = segment 3 for Azure DevOps; null for both when the workspace
\* has no identifier. (The sequences of the model count segments from 1.)
C19_IdentifierSplit ==
    StacksMapped
        => \A i \in DOMAIN src_data.workspaces :
              LET identifier == src_data.workspaces[i].identifier
                  service_provider == src_data.workspaces[i].service_provider
                  vcs == map_data.stacks[i]["vcs"]
                  n == Len(identifier)
                  joined(segments) == [null |-> FALSE, segments |-> segments]
              IN IF n = 0
                 THEN /\ vcs.namespace.null
                      /\ vcs.repository.null
                 ELSE IF service_provider = "gitlab_hosted"
                 THEN /\ vcs.namespace = joined([k \in 1..(n - 1) |-> identifier[k]])
                      /\ vcs.repository = joined(<<identifier[n]>>)
                 ELSE IF service_provider = "ado_services"
                 THEN /\ vcs.namespace = joined(<<identifier[2]>>)
                      /\ vcs.repository = joined(<<identifier[4]>>)
                 ELSE /\ vcs.namespace = joined(<<identifier[1]>>)
                      /\ vcs.repository = joined(<<identifier[2]>>)

C19_Witness ==
    /\ StacksMapped
    /\ src_data.workspaces[1].service_provider = "ado_services"
    /\ src_data.workspaces[1].identifier = <<"g", "h", "i", "r">>
    /\ map_data.stacks[1]["vcs"].namespace.segments = <<"h">>
    /\ map_data.stacks[1]["vcs"].repository.segments = <<"r">>
    /\ map_data.stacks[2]["vcs"].namespace.null

\* stacks and stack variables are mapped and not yet expanded
StackVariablesMappedOnly ==
    fn = "map" /\ mapPc \in {"contexts", "mark", "expand"}

\* the space C30 expects for an extracted workspace
OwningSpace(workspace) ==
    IF workspace.project # NullProject THEN workspace.project ELSE workspace.organization

\* C30: for every extracted workspace, the space reference of its stack and
\* of its stack variables is the project id of the workspace when that id is
\* not null, and else the id of the organization.
C30_SpaceOfWorkspace ==
    StackVariablesMappedOnly
        => \A i \in DOMAIN src_data.workspaces :
              LET workspace == src_data.workspaces[i]
              IN /\ map_data.stacks[i]["_relationships"]["space"]
                      = IdRef(OwningSpace(workspace))
                 /\ \A j \in DOMAIN src_data.workspace_variables :
                       src_data.workspace_variables[j].workspace = workspace.id
                          => map_data.stack_variables[j]["_relationships"]["space"]
                                = IdRef(OwningSpace(workspace))

\* the modules are mapped and nothing was raised
ModulesMapped ==
    /\ fn = "map"
    /\ mapPc \in {"stack_variables", "contexts", "mark", "expand", "expanded",
                  "expanded_twice"}

\* the workspaces with an identifier on the service provider
WorkspacesUsing(service_provider) ==
    {i \in DOMAIN src_data.workspaces :
        /\ src_data.workspaces[i].service_provider = service_provider
        /\ src_data.workspaces[i].identifier # << >>}

C26_ModuleLayoutOfProvider ==
    ModulesMapped
        => \A i \in DOMAIN map_data.modules :
              LET identifier == src_data.modules[i].identifier
                  vcs == map_data.modules[i]["vcs"]
                  split == IF vcs.provider = "gitlab" THEN SplitGitlab(identifier)
                           ELSE IF vcs.provider = "azure_devops"
                           THEN SplitAzureDevOps(identifier)
                           ELSE SplitGeneric(identifier)
              IN identifier # << >>
                    => /\ vcs.namespace = split.namespace
                       /\ vcs.repository = split.repository

\* the _migration_id values of the records of a collection of the graph
MigrationIdsOf(collection) ==
    {map_data[collection][i]["_migration_id"] : i \in DOMAIN map_data[collection]}

\* C25: in the graph _map_data returns with variable-set support enabled,
\* every _migration_id a context references as its space or among its stacks,
\* and every one a context variable references as its space or context, is
\* the _migration_id of a record of the spaces, stacks or contexts
\* collection respectively, when every variable set is global or attached to
\* a project or a workspace.
C25_NoDanglingReference ==
    (/\ fn = "map"
     /\ mapPc = "expanded"
     /\ config.experimental_support_variable_sets
     /\ \A v \in DOMAIN src_data.variable_sets :
           \/ src_data.variable_sets[v].global
           \/ src_data.variable_sets[v].projects # << >>
           \/ src_data.variable_sets[v].workspaces # << >>)
        => /\ \A i \in DOMAIN map_data.contexts :
                 LET relationships == map_data.contexts[i]["_relationships"]
                 IN /\ relationships["space"].migration_id \in MigrationIdsOf("spaces")
                    /\ \A k \in DOMAIN relationships["stacks"].items :
                          relationships["stacks"].items[k].migration_id
                             \in MigrationIdsOf("stacks")
           /\ \A i \in DOMAIN map_data.context_variables :
                 LET relationships == map_data.context_variables[i]["_relationships"]
                 IN /\ relationships["space"].migration_id \in MigrationIdsOf("spaces")
                    /\ relationships["context"].migration_id
                          \in MigrationIdsOf("contexts")

\* C27: with auto_fix_variable_names enabled, the replacement_name of every
\* stack variable and context variable matches ^[a-zA-Z_]+[a-zA-Z0-9_]*$, so
\* a stack whose has_variables_with_invalid_name is false has only variables
\* with a valid replacement name.
C27_ReplacementNamesValid ==
    (fn = "map" /\ mapPc \in {"mark", "expand"} /\ config.auto_fix_variable_names)
        => /\ \A i \in DOMAIN map_data.stack_variables :
                 /\ IsValidName(map_data.stack_variables[i]["replacement_name"])
                 /\ \A j \in DOMAIN map_data.stacks :
                       (/\ map_data.stacks[j]["_source_id"]
                              = map_data.stack_variables[i]["_relationships"]["stack"].id
                        /\ ~map_data.stacks[j]["has_variables_with_invalid_name"])
                          => IsValidName(map_data.stack_variables[i]["replacement_name"])
           /\ \A i \in DOMAIN map_data.context_variables :
                 IsValidName(map_data.context_variables[i]["replacement_name"])

====
